---- MODULE Spec2Model ----
(***************************************************************************)
(* Model of the segmentation/extraction hand-off of dcnum:                 *)
(*   - EventExtractorManagerThread.run  (the slot coordinator)             *)
(*   - QueueEventExtractor.run          (the extraction workers)           *)
(*   - the segmenter that fills the slots (modelled from the           *)
(*     specification of the hand-off protocol)                            *)
(* and of its image caches:                                                *)
(*   - HDF5ImageCache (get_chunk, __getitem__) and ImageCorrCache          *)
(*   - get_chunk_size, num_chunks and iter_chunks of the image cache       *)
(*     (modelled from their specification and their tests)                 *)
(* of the background series of BackgroundSparseMed.process_approach        *)
(* (cleansing of the series, assignment of its images to the frames),      *)
(* and of the pipeline identifiers: get_unique_prefix, kwargs_to_ppid and  *)
(* ppid_to_kwargs (modelled from their specification and their tests),     *)
(* get_ppid_from_ppkw and get_ppkw_from_ppid of QueueEventExtractor.       *)
(* Further parts: the extraction of one frame (process_label and           *)
(* get_masks_from_label), and of BackgroundSparseMed the frame window of   *)
(* process_second, its median workers, and the loop that writes the        *)
(* background images to the output.                                        *)
(* Strings are sequences of characters.                                    *)
(* Python indices are kept 0-based: arrays are functions over 0..N-1.      *)
(***************************************************************************)
EXTENDS Integers, Sequences, FiniteSets, Bags, TLC

(* ------------------------------------------------------------------ *)
(* Bounds of the model                                                *)
(* ------------------------------------------------------------------ *)

\* len(slot_states): number of slots shared by segmenter and coordinator
NumSlots == 2

\* num_workers: number of extraction workers
NumWorkers == 2

\* len(data): number of frames of the input of a run
DataLength == 3

\* largest number of masks a label image yields
MaxMasks == 1

\* cap of the invalid-mask counter: the largest total number of events
\* dropped as invalid in one run
MaxInvalid == 2

\* len(data) of the longer run on which the order of the slot scan is
\* examined: three chunks, the last one short
ScanDataLength == 5

\* data.image.chunk_size (a parameter of the image cache, scaled down)
ChunkSize == 2

\* the depth of the writer's deque above which the coordinator stalls
WriterDepthLimit == 100

\* the coordinator stalls one second per so many items on the deque
StallDivisor == 100

Slots == 0 .. (NumSlots - 1)
Workers == 0 .. (NumWorkers - 1)

(* ------------------------------------------------------------------ *)
(* Values                                                             *)
(* ------------------------------------------------------------------ *)

\* a row of the label array that holds no labels (all zero)
ZeroLabel == <<-1, -1>>

\* the label image of frame ii of chunk c, as deposited by the segmenter
LabelOf(c, ii) == <<c, ii>>

\* "no work item"
NoItem == <<-1, -1>>

RECURSIVE SumTo(_, _)
\* sum of f[0] .. f[n-1]
SumTo(f, n) == IF n = 0 THEN 0 ELSE f[n - 1] + SumTo(f, n - 1)

\* np.sum(worker_monitor)
MonitorSum(wm) == SumTo(wm, NumWorkers)

VARIABLES
    \* the input
    data_len,             \* len(data): number of frames
    \* shared between segmenter and coordinator
    slot_states,          \* [Slots -> {"s", "e", "w"}]
    slot_chunks,          \* [Slots -> chunk index]
    labels_list,          \* [Slots -> sequence of label images]
    \* the segmenter
    seg_next,             \* next chunk the segmenter deposits
    \* the coordinator (EventExtractorManagerThread.run)
    m_pc,
    cur_slot,
    unavailable_slots,
    chunk,
    chunk_size,
    put_ii,               \* loop variable ii of the raw_queue.put loop
    ldq,                  \* len(writer_dq) as read in this iteration
    stallsec,             \* << seconds, hundredths >> of the stall
    chunks_processed,
    frames_processed,
    inv_masks,            \* value read for the shutdown report, -1 before
    \* shared between coordinator and workers
    raw_queue,
    label_array,
    worker_monitor,
    finalize_extraction,
    \* shared among the workers and consumed downstream
    event_queue,          \* bag of (index, number of events) messages
    feat_nevents,
    invalid_mask_counter,
    \* the workers (QueueEventExtractor.run)
    w_pc,
    w_item,               \* the (chunk_index, label_index) being processed
    w_raised,             \* process_label raised for the current item
    w_nevents,            \* number of events process_label returned
    w_ninvalid,           \* np.sum(invalid) of the current item
    w_read,               \* value of invalid_mask_counter read for "+="
    \* history
    h_dispatched,         \* [Frames -> number of work items put for it]
    h_written,            \* [Frames -> number of writes of feat_nevents]
    h_raised,             \* frames whose processing raised
    h_invalid,            \* total number of events dropped as invalid
    h_last_slot,          \* the slot claimed last, -1 before the first claim
    h_scan_e              \* slots in state "e" when the scan in progress
                          \* began, empty when no scan is in progress

\* the image caches (HDF5ImageCache, ImageCorrCache) of one data set
VARIABLES
    h5_len,               \* len(h5ds) of the image and the background data
    c_chunk_size,         \* chunk_size of the caches
    c_cache_size,         \* cache_size of the image cache
    bg_cache_size,        \* cache_size of the background cache
    image_cache,          \* image.cache: entries in insertion order
    bg_cache,             \* image_bg.cache
    corr_cache,           \* the cache of the ImageCorrCache
    c_result,             \* the last call on a cache and how it ended
    it_next,              \* iter_chunks: the index yielded next, -1: idle
    it_out,               \* iter_chunks: the indices yielded so far
    h_loads,              \* chunks loaded into image.cache: the newest
                          \* in their order, and whether more before
    h_corr_loads          \* chunks loaded into the corrected cache

cacheVars == << h5_len, c_chunk_size, c_cache_size, bg_cache_size,
                image_cache, bg_cache, corr_cache, c_result,
                it_next, it_out, h_loads, h_corr_loads >>

\* the background series of BackgroundSparseMed.process_approach
VARIABLES
    bg_time,              \* self.time: the time stamp of every frame
    bg_split_time,        \* self.split_time
    bg_thresh_cleansing,  \* self.thresh_cleansing
    bg_frac_cleansing,    \* self.frac_cleansing: << numerator, denominator >>
    bg_x,                 \* x: the cleansing signal of every series image
    bg_pc,                \* position in process_approach
    bg_used,              \* used: which images of the series survive
    bg_enforced,          \* the quantile cutoff replaced the threshold
    bg_idx                \* bg_idx: the image of the series of every frame

bgVars == << bg_time, bg_split_time, bg_thresh_cleansing, bg_frac_cleansing,
             bg_x, bg_pc, bg_used, bg_enforced, bg_idx >>

\* the pipeline identifiers
VARIABLES
    pp_in_list,           \* get_unique_prefix: in_list
    pp_out_list,          \* what get_unique_prefix returned, << >> before
    pp_seen,              \* << key, abbreviation >> of all calls so far
    pp_cls,               \* the class whose method is identified
    pp_kwargs,            \* kwargs: the keyword overrides
    pp_ppid,              \* the identifier string
    pp_present,           \* the keys that have a segment in pp_ppid
    pp_result,            \* what the decoding returned or raised
    pp_edits,             \* how often pp_ppid was rearranged
    pp_pc                 \* "new", "encoded" or "decoded"

ppVars == << pp_in_list, pp_out_list, pp_seen, pp_cls, pp_kwargs, pp_ppid,
             pp_present, pp_result, pp_edits, pp_pc >>

\* process_label and get_masks_from_label on one frame
VARIABLES
    ex_images,            \* self.data.image: the raw images
    ex_label,             \* label: the label image of the frame
    ex_thresh,            \* the mask size the gate asks for
    ex_index,             \* index: the frame
    ex_skipped,           \* process_label returned in line 295
    ex_masks,             \* what get_masks_from_label returned
    ex_box,               \* per mask: gate_events lets the event pass
    ex_valid,             \* per mask: "valid" of moments_based_features
    ex_events,            \* the masks of the events of process_label
    ex_read,              \* value of invalid_mask_counter read for "+="
    ex_other_pc,          \* another extractor: "idle", "inv_write", "done"
    ex_other_read,        \* the value the other extractor read
    ex_count,             \* feat_nevents[index], -1 before
    ex_pc                 \* position of the extractor in its call

exVars == << ex_images, ex_label, ex_thresh, ex_index, ex_skipped,
             ex_masks, ex_box, ex_valid, ex_events, ex_read, ex_other_pc,
             ex_other_read, ex_count, ex_pc >>

\* the frame window of process_second
VARIABLES
    win_time,             \* self.time
    win_requested,        \* kernel_size as passed to __init__
    win_kernel_size,      \* self.kernel_size
    win_warned,           \* the warning of __init__ was logged
    win_second,           \* second: the time stamp of the step
    win_start,            \* idx_start
    win_stop,             \* idx_stop
    win_pc                \* "new", "init", "window" or "AssertionError"

winVars == << win_time, win_requested, win_kernel_size, win_warned,
              win_second, win_start, win_stop, win_pc >>

\* the median computation of process_second and its workers
VARIABLES
    med_smax,             \* smax: height * width
    med_pc,               \* position of the caller
    med_ii,               \* ii: the step of process_approach
    med_start,            \* start: loop variable of the job loop
    med_num_jobs,         \* num_jobs
    worker_counter,       \* self.worker_counter.value
    med_queue,            \* self.queue: the job slices
    shared_input,         \* the step whose frames shared_input holds
    shared_output,        \* per block: the step its median was taken of
    bg_images,            \* self.bg_images: per step, the blocks copied
    mw_pc,                \* position of every median worker
    mw_job,               \* the job slice a worker got
    mw_part,              \* part[kth] a worker computed
    mh_written            \* per step and block: the times it was written

medVars == << med_smax, med_pc, med_ii, med_start, med_num_jobs,
              worker_counter, med_queue, shared_input, shared_output,
              bg_images, mw_pc, mw_job, mw_part, mh_written >>

\* the write-back loop of process_approach
VARIABLES
    wr_event_count,       \* self.event_count
    wr_split_time,        \* self.split_time
    wr_num_images,        \* len(bg_images)
    wr_bg_idx,            \* bg_idx
    wr_pos,               \* pos
    wr_image_bg,          \* h5out["events/image_bg"]: per row, the image
    wr_batches,           \* the slices << pos, stop >> written so far
    wr_pc                 \* "loop", "done" or "IndexError"

wrVars == << wr_event_count, wr_split_time, wr_num_images, wr_bg_idx,
            wr_pos, wr_image_bg, wr_batches, wr_pc >>

\* the frame extraction, the frame window, the median computation and
\* the write-back
moreVars == << exVars, winVars, medVars, wrVars >>

\* everything but the hand-off and the image caches
restVars == << bgVars, ppVars, moreVars >>

pipeVars == << data_len, slot_states, slot_chunks, labels_list, seg_next,
           m_pc, cur_slot, unavailable_slots, chunk, chunk_size, put_ii,
           ldq, stallsec, chunks_processed, frames_processed, inv_masks,
           raw_queue, label_array, worker_monitor, finalize_extraction,
           event_queue, feat_nevents, invalid_mask_counter,
           w_pc, w_item, w_raised, w_nevents, w_ninvalid, w_read,
           h_dispatched, h_written, h_raised, h_invalid,
           h_last_slot, h_scan_e >>

vars == << pipeVars, cacheVars, restVars >>

dataVars == << data_len >>
segVars == << seg_next >>
slotVars == << slot_states, slot_chunks, labels_list >>
mgrVars == << m_pc, cur_slot, unavailable_slots, chunk, chunk_size, put_ii,
              ldq, stallsec, chunks_processed, frames_processed, inv_masks >>
workerVars == << w_pc, w_item, w_raised, w_nevents, w_ninvalid, w_read >>
outVars == << event_queue, feat_nevents, invalid_mask_counter >>
histVars == << h_dispatched, h_written, h_raised, h_invalid >>
stallVars == << ldq, stallsec >>
scanHist == << h_last_slot, h_scan_e >>

\* indices of the frames of the input
Frames == 0 .. (data_len - 1)

(* ------------------------------------------------------------------ *)
(* The image cache's chunk geometry                                   *)
(* ------------------------------------------------------------------ *)

\* how a call ended: with a value (kind "value"), a chunk ("chunk") or
\* an exception (its class); raiser, index and size are what the
\* message of an IndexError names
Result(op, arg, kind, value, data, raiser, index, size) ==
    [op |-> op, arg |-> arg, kind |-> kind, value |-> value,
     data |-> data, raiser |-> raiser, index |-> index, size |-> size]

\* num_chunks of a cache over n images in chunks of cs:
\* ceil(n / cs)
cache_num_chunks(n, cs) == (n + cs - 1) \div cs

\* variant: every chunk has the nominal size
NominalChunkSize(n, cs, k) ==
    IF k < cache_num_chunks(n, cs)
    THEN Result("chunk_size", k, "value", cs, << >>, "none", 0, 0)
    ELSE Result("chunk_size", k, "IndexError", 0, << >>,
                "HDF5ImageCache", k, cache_num_chunks(n, cs))

\* get_chunk_size(chunk_index) of a cache over n images in chunks of
\* cs: the number of images of the chunk, or the IndexError that states
\* the number of chunks (field size)
cache_get_chunk_size(n, cs, k) ==
    IF k < cache_num_chunks(n, cs) - 1
    THEN Result("chunk_size", k, "value", cs, << >>, "none", 0, 0)
    ELSE IF k = cache_num_chunks(n, cs) - 1
    THEN Result("chunk_size", k, "value", n - k * cs, << >>, "none", 0, 0)
    ELSE Result("chunk_size", k, "IndexError", 0, << >>,
                "HDF5ImageCache", k, cache_num_chunks(n, cs))

\* data.image.num_chunks
num_chunks == cache_num_chunks(data_len, ChunkSize)

Chunks == 0 .. (num_chunks - 1)

\* data.image.get_chunk_size(chunk_index) for a valid chunk index
get_chunk_size(chunk_index) ==
    cache_get_chunk_size(data_len, ChunkSize, chunk_index).value

\* the state in which run starts on an input of n frames
PipelineInit(n) ==
    /\ data_len = n
    /\ slot_states = [s \in Slots |-> "s"]
    /\ slot_chunks = [s \in Slots |-> 0]
    /\ labels_list = [s \in Slots |-> << >>]
    /\ seg_next = 0
    /\ m_pc = "init"
    /\ cur_slot = 0
    /\ unavailable_slots = 0
    /\ chunk = 0
    /\ chunk_size = 0
    /\ put_ii = 0
    /\ ldq = 0
    /\ stallsec = << 0, 0 >>
    /\ chunks_processed = 0
    /\ frames_processed = 0
    /\ inv_masks = -1
    /\ raw_queue = << >>
    /\ label_array = [r \in 0 .. (ChunkSize - 1) |-> ZeroLabel]
    /\ worker_monitor = [k \in Workers |-> 0]
    /\ finalize_extraction = FALSE
    /\ event_queue = EmptyBag
    /\ feat_nevents = [i \in Frames |-> -1]
    /\ invalid_mask_counter = 0
    /\ w_pc = [k \in Workers |-> "new"]
    /\ w_item = [k \in Workers |-> NoItem]
    /\ w_raised = [k \in Workers |-> FALSE]
    /\ w_nevents = [k \in Workers |-> 0]
    /\ w_ninvalid = [k \in Workers |-> 0]
    /\ w_read = [k \in Workers |-> 0]
    /\ h_dispatched = [i \in Frames |-> 0]
    /\ h_written = [i \in Frames |-> 0]
    /\ h_raised = {}
    /\ h_invalid = 0
    /\ h_last_slot = -1
    /\ h_scan_e = {}

\* no chunk was loaded
NoLoads == [recent |-> << >>, earlier |-> FALSE]

\* no call was made on a cache
NoResult ==
    [op |-> "none", arg |-> 0, kind |-> "none", value |-> 0,
     data |-> << >>, raiser |-> "none", index |-> 0, size |-> 0]

\* caches of a data set of n images with the given chunk size and
\* cache sizes, right after their construction
CachesInit(n, cs, size, bg_size) ==
    /\ h5_len = n
    /\ c_chunk_size = cs
    /\ c_cache_size = size
    /\ bg_cache_size = bg_size
    /\ image_cache = << >>
    /\ bg_cache = << >>
    /\ corr_cache = << >>
    /\ c_result = NoResult
    /\ it_next = -1
    /\ it_out = << >>
    /\ h_loads = NoLoads
    /\ h_corr_loads = NoLoads

\* no background series is being computed
BackgroundIdle ==
    /\ bg_time = << >>
    /\ bg_split_time = 1
    /\ bg_thresh_cleansing = 0
    /\ bg_frac_cleansing = << 1, 1 >>
    /\ bg_x = << >>
    /\ bg_pc = "idle"
    /\ bg_used = << >>
    /\ bg_enforced = FALSE
    /\ bg_idx = << >>

\* nothing was decoded
NoKwargs == [kind |-> "none", kwargs |-> << >>]

\* no key list is abbreviated
PrefixIdle ==
    /\ pp_in_list = << >>
    /\ pp_out_list = << >>
    /\ pp_seen = {}

\* no identifier is encoded or decoded
PpidIdle ==
    /\ pp_cls = "none"
    /\ pp_kwargs = << >>
    /\ pp_ppid = << >>
    /\ pp_present = {}
    /\ pp_result = NoKwargs
    /\ pp_edits = 0
    /\ pp_pc = "idle"

\* no frame is extracted
ExtractIdle ==
    /\ ex_images = << >>
    /\ ex_label = << >>
    /\ ex_thresh = 0
    /\ ex_index = 0
    /\ ex_skipped = FALSE
    /\ ex_masks = << >>
    /\ ex_box = << >>
    /\ ex_valid = << >>
    /\ ex_events = << >>
    /\ ex_read = 0
    /\ ex_other_pc = "idle"
    /\ ex_other_read = 0
    /\ ex_count = -1
    /\ ex_pc = "idle"

\* no frame window is chosen
WindowIdle ==
    /\ win_time = << >>
    /\ win_requested = 0
    /\ win_kernel_size = 0
    /\ win_warned = FALSE
    /\ win_second = 0
    /\ win_start = 0
    /\ win_stop = 0
    /\ win_pc = "idle"

\* no median is computed
MedianIdle ==
    /\ med_smax = 0
    /\ med_pc = "idle"
    /\ med_ii = 0
    /\ med_start = 0
    /\ med_num_jobs = 0
    /\ worker_counter = 0
    /\ med_queue = << >>
    /\ shared_input = -1
    /\ shared_output = << >>
    /\ bg_images = << >>
    /\ mw_pc = << >>
    /\ mw_job = << >>
    /\ mw_part = << >>
    /\ mh_written = << >>

\* nothing is written back
WriteIdle ==
    /\ wr_event_count = 0
    /\ wr_split_time = 0
    /\ wr_num_images = 0
    /\ wr_bg_idx = << >>
    /\ wr_pos = 0
    /\ wr_image_bg = << >>
    /\ wr_batches = << >>
    /\ wr_pc = "idle"

\* no frame is extracted, no background computed or written
MoreIdle == ExtractIdle /\ WindowIdle /\ MedianIdle /\ WriteIdle

\* nothing but the hand-off and the image caches is in use
RestIdle == BackgroundIdle /\ PrefixIdle /\ PpidIdle /\ MoreIdle

Init ==
    /\ PipelineInit(DataLength)
    /\ CachesInit(DataLength, ChunkSize, 0, 0)
    /\ RestIdle


(* ------------------------------------------------------------------ *)
(* The segmenter (producer side of the slots)                         *)
(* ------------------------------------------------------------------ *)

\* a slot is the segmenter's to fill unless it holds data for the extractor
SegmenterMayFill(st) == st # "e"

\* the labels of one chunk: one label image per frame of the chunk
ChunkLabels(c) == [ii \in 1 .. get_chunk_size(c) |-> LabelOf(c, ii - 1)]

\* the segmenter deposits the next labeled chunk into a slot that is
\* its own and flips the slot to "e"
SegmenterDeposit(s) ==
    /\ seg_next < num_chunks
    /\ SegmenterMayFill(slot_states[s])
    /\ slot_chunks' = [slot_chunks EXCEPT ![s] = seg_next]
    /\ labels_list' = [labels_list EXCEPT ![s] = ChunkLabels(seg_next)]
    /\ slot_states' = [slot_states EXCEPT ![s] = "e"]
    /\ seg_next' = seg_next + 1
    /\ UNCHANGED << restVars, cacheVars, dataVars, scanHist,
                    mgrVars, raw_queue, label_array, worker_monitor,
                    finalize_extraction, outVars, workerVars, histVars >>

\* the labels of a chunk with one label image more than the label
\* array has rows
OversizedLabels(c) == [ii \in 1 .. (ChunkSize + 1) |-> LabelOf(c, ii - 1)]

\* the segmenter deposits labels of a bad size for the next chunk
SegmenterDepositOversized(s) ==
    /\ seg_next < num_chunks
    /\ SegmenterMayFill(slot_states[s])
    /\ slot_chunks' = [slot_chunks EXCEPT ![s] = seg_next]
    /\ labels_list' = [labels_list EXCEPT ![s] = OversizedLabels(seg_next)]
    /\ slot_states' = [slot_states EXCEPT ![s] = "e"]
    /\ seg_next' = seg_next + 1
    /\ UNCHANGED << restVars, cacheVars, dataVars, scanHist,
                    mgrVars, raw_queue, label_array, worker_monitor,
                    finalize_extraction, outVars, workerVars, histVars >>

(* ------------------------------------------------------------------ *)
(* The coordinator: EventExtractorManagerThread.run                   *)
(* ------------------------------------------------------------------ *)

\* variant: every slot that is not marked "s" is taken
SlotNotWithSegmenter(st) == st # "s"

\* the test of the slot scan: the segmenter has something in this slot
SlotHasData(st) == st = "e"

\* the state the coordinator writes into a slot it is done with
ReleasedState == "w"

\* variant: the barrier opens with the first acknowledged frame
BarrierAnyAck(wm, fp, cs) == MonitorSum(wm) > fp

\* variant: the barrier expects a full chunk, also for the last chunk
BarrierNominalChunk(wm, fp, cs) == MonitorSum(wm) = fp + ChunkSize

\* the exit test of the barrier loop
BarrierReached(wm, fp, cs) == MonitorSum(wm) = fp + cs

\* variant: the rows behind the copied labels keep what they hold
PopulateLabelsKeepRest(new_labels) ==
    [r \in 0 .. (ChunkSize - 1) |->
        IF r < Len(new_labels) THEN new_labels[r + 1] ELSE label_array[r]]

\* the label array after a chunk's labels were copied into it
PopulateLabels(new_labels) ==
    [r \in 0 .. (ChunkSize - 1) |->
        IF r < Len(new_labels) THEN new_labels[r + 1] ELSE ZeroLabel]

\* workers are created and started
MgrStartWorkers ==
    /\ m_pc = "init"
    /\ m_pc' = "top"
    /\ w_pc' = [k \in Workers |-> "start"]
    /\ UNCHANGED << restVars, cacheVars, dataVars, scanHist, stallVars,
                    segVars, slotVars, cur_slot, unavailable_slots, chunk,
                    chunk_size, put_ii, chunks_processed, frames_processed,
                    inv_masks, raw_queue, label_array, worker_monitor,
                    finalize_extraction, outVars, w_item, w_raised,
                    w_nevents, w_ninvalid, w_read, histVars >>

\* variant: the scan goes on behind the slot claimed last
ScanStartAfterLast(last) == (last + 1) % NumSlots

\* the slot at which a scan starts; last is the value cur_slot has from
\* the iteration before
ScanStart(last) == 0

\* variant: the stall begins at the limit
StallsAtLimit(depth) == depth >= WriterDepthLimit

\* the test on the depth of the writer's deque
Stalls(depth) == depth > WriterDepthLimit

\* stallsec = ldq / 100, as whole seconds and hundredths of a second
StallSeconds(depth) == << depth \div StallDivisor, depth % StallDivisor >>

\* the depths the writer's deque is found to have: empty, at the
\* limit, above the limit
WriterDepths == { 0, WriterDepthLimit, WriterDepthLimit + 1 }

\* head of the outer loop: the depth of the writer's deque is read and
\* tested
MgrReadDepth ==
    /\ m_pc = "top"
    /\ \E depth \in WriterDepths :
        /\ ldq' = depth
        /\ IF Stalls(depth)
           THEN /\ stallsec' = StallSeconds(depth)
                /\ m_pc' = "stall"
           ELSE /\ m_pc' = "begin"
                /\ UNCHANGED stallsec
    /\ UNCHANGED << restVars, cacheVars, dataVars, scanHist,
                    segVars, slotVars, cur_slot, unavailable_slots, chunk,
                    chunk_size, put_ii, chunks_processed, frames_processed,
                    inv_masks, raw_queue, label_array, worker_monitor,
                    finalize_extraction, outVars, workerVars, histVars >>

\* time.sleep(stallsec) returns
MgrStall ==
    /\ m_pc = "stall"
    /\ m_pc' = "begin"
    /\ UNCHANGED << restVars, cacheVars, dataVars, scanHist, stallVars,
                    segVars, slotVars, cur_slot, unavailable_slots, chunk,
                    chunk_size, put_ii, chunks_processed, frames_processed,
                    inv_masks, raw_queue, label_array, worker_monitor,
                    finalize_extraction, outVars, workerVars, histVars >>

\* the scan is set up (ldq and stallsec are not read again before
\* they are assigned in the next iteration)
MgrBeginScan ==
    /\ m_pc = "begin"
    /\ ldq' = 0
    /\ stallsec' = << 0, 0 >>
    /\ cur_slot' = ScanStart(cur_slot)
    /\ unavailable_slots' = 0
    /\ m_pc' = "scan"
    /\ h_scan_e' = {s \in Slots : slot_states[s] = "e"}
    /\ UNCHANGED << restVars, cacheVars, dataVars, h_last_slot,
                    segVars, slotVars, chunk, chunk_size, put_ii,
                    chunks_processed, frames_processed, inv_masks,
                    raw_queue, label_array, worker_monitor,
                    finalize_extraction, outVars, workerVars, histVars >>

\* one round of the inner scan loop: look at slot cur_slot
MgrScan ==
    /\ m_pc = "scan"
    /\ IF SlotHasData(slot_states[cur_slot])
       THEN /\ m_pc' = "claim"
            /\ UNCHANGED << cur_slot, unavailable_slots >>
       ELSE /\ cur_slot' = (cur_slot + 1) % NumSlots
            /\ unavailable_slots' =
                   IF unavailable_slots + 1 >= NumSlots
                   THEN 0 ELSE unavailable_slots + 1
            /\ m_pc' = "scan"
    /\ UNCHANGED << restVars, cacheVars, dataVars, scanHist, stallVars,
                    segVars, slotVars, chunk, chunk_size, put_ii,
                    chunks_processed, frames_processed, inv_masks,
                    raw_queue, label_array, worker_monitor,
                    finalize_extraction, outVars, workerVars, histVars >>

\* the slot's chunk index and labels are read, the label array
\* populated; labels of more frames than the label array has rows
\* raise ValueError, which ends run
MgrClaim ==
    /\ m_pc = "claim"
    /\ chunk' = slot_chunks[cur_slot]
    /\ IF Len(labels_list[cur_slot]) <= ChunkSize
       THEN /\ label_array' = PopulateLabels(labels_list[cur_slot])
            /\ chunk_size' = get_chunk_size(slot_chunks[cur_slot])
            /\ put_ii' = 0
            /\ m_pc' = "put"
       ELSE /\ m_pc' = "raised"
            /\ UNCHANGED << label_array, chunk_size, put_ii >>
    /\ h_last_slot' = cur_slot
    /\ h_scan_e' = {}
    /\ UNCHANGED << restVars, cacheVars, dataVars, stallVars,
                    segVars, slotVars, cur_slot, unavailable_slots,
                    chunks_processed, frames_processed, inv_masks,
                    raw_queue, worker_monitor, finalize_extraction,
                    outVars, workerVars, histVars >>

\* raw_queue.put((chunk, ii)) for the next ii of range(chunk_size)
MgrPut ==
    /\ m_pc = "put"
    /\ IF put_ii < chunk_size
       THEN /\ raw_queue' = Append(raw_queue, <<chunk, put_ii>>)
            /\ put_ii' = put_ii + 1
            /\ h_dispatched' =
                  [h_dispatched EXCEPT ![chunk * ChunkSize + put_ii] = @ + 1]
            /\ m_pc' = "put"
       ELSE /\ m_pc' = "barrier"
            /\ UNCHANGED << raw_queue, put_ii, h_dispatched >>
    /\ UNCHANGED << restVars, cacheVars, dataVars, scanHist, stallVars,
                    segVars, slotVars, cur_slot, unavailable_slots, chunk,
                    chunk_size, chunks_processed, frames_processed,
                    inv_masks, label_array, worker_monitor,
                    finalize_extraction, outVars, workerVars,
                    h_written, h_raised, h_invalid >>

\* the barrier is passed, the slot released and the chunk counted
MgrRelease ==
    /\ m_pc = "barrier"
    /\ BarrierReached(worker_monitor, frames_processed, chunk_size)
    /\ slot_states' = [slot_states EXCEPT ![cur_slot] = ReleasedState]
    /\ chunks_processed' = chunks_processed + 1
    /\ frames_processed' = frames_processed + chunk_size
    /\ m_pc' = IF chunks_processed + 1 = num_chunks THEN "report" ELSE "top"
    /\ UNCHANGED << restVars, cacheVars, dataVars, scanHist, stallVars,
                    segVars, slot_chunks, labels_list, cur_slot,
                    unavailable_slots, chunk, chunk_size, put_ii, inv_masks,
                    raw_queue, label_array, worker_monitor,
                    finalize_extraction, outVars, workerVars, histVars >>

\* the invalid-mask counter is read for the shutdown report
MgrReport ==
    /\ m_pc = "report"
    /\ inv_masks' = invalid_mask_counter
    /\ m_pc' = "finalize"
    /\ UNCHANGED << restVars, cacheVars, dataVars, scanHist, stallVars,
                    segVars, slotVars, cur_slot, unavailable_slots, chunk,
                    chunk_size, put_ii, chunks_processed, frames_processed,
                    raw_queue, label_array, worker_monitor,
                    finalize_extraction, outVars, workerVars, histVars >>

\* the workers are asked to join
MgrFinalize ==
    /\ m_pc = "finalize"
    /\ finalize_extraction' = TRUE
    /\ m_pc' = "join"
    /\ UNCHANGED << restVars, cacheVars, dataVars, scanHist, stallVars,
                    segVars, slotVars, cur_slot, unavailable_slots, chunk,
                    chunk_size, put_ii, chunks_processed, frames_processed,
                    inv_masks, raw_queue, label_array, worker_monitor,
                    outVars, workerVars, histVars >>

\* [w.join() for w in workers] returns
MgrJoin ==
    /\ m_pc = "join"
    /\ \A k \in Workers : w_pc[k] = "done"
    /\ m_pc' = "done"
    /\ UNCHANGED << restVars, cacheVars, dataVars, scanHist, stallVars,
                    segVars, slotVars, cur_slot, unavailable_slots, chunk,
                    chunk_size, put_ii, chunks_processed, frames_processed,
                    inv_masks, raw_queue, label_array, worker_monitor,
                    finalize_extraction, outVars, workerVars, histVars >>


(* ------------------------------------------------------------------ *)
(* The extraction workers: QueueEventExtractor.run                    *)
(* ------------------------------------------------------------------ *)

\* variant: the chunk index is not scaled by the chunk size
FrameIndexNoStride(item) == item[1] + item[2]

\* index = chunk_index * chunk_size + label_index
FrameIndex(item) == item[1] * ChunkSize + item[2]

\* variant: the worker leaves its loop on the first queue.Empty
WorkerExitsOnEmpty(finalize) == TRUE

\* on queue.Empty the worker leaves its loop iff the flag is set
WorkerMayExit(finalize) == finalize

\* variant: count and message are published after an exception, too
PublishesAlways(raised) == TRUE

\* the else-branch of the inner try: count written and message put
\* only when process_label did not raise
PublishesResult(raised) == ~raised

\* variant: the increment sits in the else-branch of the inner try
MonitorIncrementUnlessRaised(raised) == IF raised THEN 0 ELSE 1

\* worker_monitor[worker_index] += 1 follows the inner try statement,
\* whether process_label raised or not
MonitorIncrement(raised) == 1

\* invalid_mask_counter.value += np.sum(invalid): the value written back
CounterPlus(read, n) == read + n

\* what process_label can come to for a frame: it raises, or it drops
\* ninv events as invalid (adding them to the invalid-mask counter) and
\* returns the surviving events, none for a skipped frame or a frame
\* without masks
Outcomes ==
    { [raised |-> TRUE, ninv |-> 0] } \cup
    { [raised |-> FALSE, ninv |-> i] : i \in 0 .. MaxMasks }

\* the numbers of events process_label can return after ninv masks
\* were dropped as invalid
EventCounts(ninv) == 0 .. (MaxMasks - ninv)

\* beginning of run: worker_monitor[worker_index] = 0
WorkerStart(k) ==
    /\ w_pc[k] = "start"
    /\ worker_monitor' = [worker_monitor EXCEPT ![k] = 0]
    /\ w_pc' = [w_pc EXCEPT ![k] = "get"]
    /\ UNCHANGED << restVars, cacheVars, dataVars, scanHist,
                    segVars, slotVars, mgrVars, raw_queue, label_array,
                    finalize_extraction, outVars, w_item, w_raised,
                    w_nevents, w_ninvalid, w_read, histVars >>

\* raw_queue.get(timeout=.03) returns a work item
WorkerGet(k) ==
    /\ w_pc[k] = "get"
    /\ raw_queue # << >>
    /\ w_item' = [w_item EXCEPT ![k] = Head(raw_queue)]
    /\ raw_queue' = Tail(raw_queue)
    /\ w_pc' = [w_pc EXCEPT ![k] = "process"]
    /\ UNCHANGED << restVars, cacheVars, dataVars, scanHist,
                    segVars, slotVars, mgrVars, label_array, worker_monitor,
                    finalize_extraction, outVars, w_raised, w_nevents,
                    w_ninvalid, w_read, histVars >>

\* raw_queue.get timed out (queue.Empty): leave the loop if the
\* coordinator said that nothing more is coming, else poll again
WorkerTimeout(k) ==
    /\ w_pc[k] = "get"
    /\ WorkerMayExit(finalize_extraction)
    /\ w_pc' = [w_pc EXCEPT ![k] = "done"]
    /\ UNCHANGED << restVars, cacheVars, dataVars, scanHist,
                    segVars, slotVars, mgrVars, raw_queue, label_array,
                    worker_monitor, finalize_extraction, outVars, w_item,
                    w_raised, w_nevents, w_ninvalid, w_read, histVars >>

\* process_label up to the point where it raises, returns, or
\* is about to add to the invalid-mask counter
WorkerProcessIn(k, outcomes) ==
    /\ w_pc[k] = "process"
    /\ \E o \in outcomes :
        /\ h_invalid + o.ninv <= MaxInvalid
        /\ w_raised' = [w_raised EXCEPT ![k] = o.raised]
        /\ w_ninvalid' = [w_ninvalid EXCEPT ![k] = o.ninv]
        /\ h_raised' = IF o.raised
                       THEN h_raised \cup {FrameIndex(w_item[k])}
                       ELSE h_raised
        /\ h_invalid' = h_invalid + o.ninv
        /\ w_pc' = [w_pc EXCEPT ![k] =
                       IF ~o.raised /\ o.ninv > 0 THEN "inv_read"
                       ELSE "result"]
    /\ UNCHANGED << restVars, cacheVars, dataVars, scanHist,
                    segVars, slotVars, mgrVars, raw_queue, label_array,
                    worker_monitor, finalize_extraction, outVars, w_item,
                    w_nevents, w_read, h_dispatched, h_written >>

WorkerProcess(k) == WorkerProcessIn(k, Outcomes)

\* "+=" on the shared value, first half: the value is read
WorkerInvalidRead(k) ==
    /\ w_pc[k] = "inv_read"
    /\ w_read' = [w_read EXCEPT ![k] = invalid_mask_counter]
    /\ w_pc' = [w_pc EXCEPT ![k] = "inv_write"]
    /\ UNCHANGED << restVars, cacheVars, dataVars, scanHist,
                    segVars, slotVars, mgrVars, raw_queue, label_array,
                    worker_monitor, finalize_extraction, outVars, w_item,
                    w_raised, w_nevents, w_ninvalid, histVars >>

\* "+=" on the shared value, second half: the sum is written back
WorkerInvalidWrite(k) ==
    /\ w_pc[k] = "inv_write"
    /\ invalid_mask_counter' = CounterPlus(w_read[k], w_ninvalid[k])
    /\ w_read' = [w_read EXCEPT ![k] = 0]
    /\ w_pc' = [w_pc EXCEPT ![k] = "result"]
    /\ UNCHANGED << restVars, cacheVars, dataVars, scanHist,
                    segVars, slotVars, mgrVars, raw_queue, label_array,
                    worker_monitor, finalize_extraction, event_queue,
                    feat_nevents, w_item, w_raised, w_nevents, w_ninvalid,
                    histVars >>

\* the inner try statement is left: on an exception the traceback is
\* logged; else feat_nevents[index] = len(events[key0]), or 0 without
\* events (the number of returned events is first visible here; counts
\* is the set it is drawn from)
WorkerCountIn(k, counts) ==
    /\ w_pc[k] = "result"
    /\ IF PublishesResult(w_raised[k])
       THEN \E n \in counts :
            /\ w_nevents' = [w_nevents EXCEPT ![k] = n]
            /\ feat_nevents' =
                 [feat_nevents EXCEPT ![FrameIndex(w_item[k])] = n]
            /\ h_written' =
                 [h_written EXCEPT ![FrameIndex(w_item[k])] = @ + 1]
            /\ w_pc' = [w_pc EXCEPT ![k] = "put"]
       ELSE /\ w_pc' = [w_pc EXCEPT ![k] = "monitor"]
            /\ UNCHANGED << feat_nevents, h_written, w_nevents >>
    /\ UNCHANGED << restVars, cacheVars, dataVars, scanHist,
                    segVars, slotVars, mgrVars, raw_queue, label_array,
                    worker_monitor, finalize_extraction, event_queue,
                    invalid_mask_counter, w_item, w_raised,
                    w_ninvalid, w_read, h_dispatched, h_raised, h_invalid >>

WorkerCount(k) == WorkerCountIn(k, EventCounts(w_ninvalid[k]))

\* event_queue.put((index, events))
WorkerPutEvents(k) ==
    /\ w_pc[k] = "put"
    /\ event_queue' =
           event_queue (+) SetToBag({<<FrameIndex(w_item[k]), w_nevents[k]>>})
    /\ w_pc' = [w_pc EXCEPT ![k] = "monitor"]
    /\ UNCHANGED << restVars, cacheVars, dataVars, scanHist,
                    segVars, slotVars, mgrVars, raw_queue, label_array,
                    worker_monitor, finalize_extraction, feat_nevents,
                    invalid_mask_counter, w_item, w_raised, w_nevents,
                    w_ninvalid, w_read, histVars >>

\* worker_monitor[worker_index] += 1, then the next round of the loop
WorkerMonitor(k) ==
    /\ w_pc[k] = "monitor"
    /\ worker_monitor' =
           [worker_monitor EXCEPT ![k] = @ + MonitorIncrement(w_raised[k])]
    /\ w_item' = [w_item EXCEPT ![k] = NoItem]
    /\ w_raised' = [w_raised EXCEPT ![k] = FALSE]
    /\ w_nevents' = [w_nevents EXCEPT ![k] = 0]
    /\ w_ninvalid' = [w_ninvalid EXCEPT ![k] = 0]
    /\ w_pc' = [w_pc EXCEPT ![k] = "get"]
    /\ UNCHANGED << restVars, cacheVars, dataVars, scanHist,
                    segVars, slotVars, mgrVars, raw_queue, label_array,
                    finalize_extraction, outVars, w_read, histVars >>

(* ------------------------------------------------------------------ *)
(* Specifications                                                     *)
(* ------------------------------------------------------------------ *)

Segmenter == \E s \in Slots : SegmenterDeposit(s)

Manager ==
    \/ MgrStartWorkers
    \/ MgrReadDepth
    \/ MgrStall
    \/ MgrBeginScan
    \/ MgrScan
    \/ MgrClaim
    \/ MgrPut
    \/ MgrRelease
    \/ MgrReport
    \/ MgrFinalize
    \/ MgrJoin

Worker(k) ==
    \/ WorkerStart(k)
    \/ WorkerGet(k)
    \/ WorkerTimeout(k)
    \/ WorkerProcess(k)
    \/ WorkerInvalidRead(k)
    \/ WorkerInvalidWrite(k)
    \/ WorkerCount(k)
    \/ WorkerPutEvents(k)
    \/ WorkerMonitor(k)

Next == Segmenter \/ Manager \/ \E k \in Workers : Worker(k)

Spec == Init /\ [][Next]_vars


(* The number of events a frame yields never influences the control   *)
(* flow: it is only stored in feat_nevents and in the message. The     *)
(* specification used for termination keeps every step of Spec but     *)
(* lets frames yield no surviving events.                              *)

WorkerCountNone(k) == WorkerCountIn(k, {0})

WorkerT(k) ==
    \/ WorkerStart(k)
    \/ WorkerGet(k)
    \/ WorkerTimeout(k)
    \/ WorkerProcess(k)
    \/ WorkerInvalidRead(k)
    \/ WorkerInvalidWrite(k)
    \/ WorkerCountNone(k)
    \/ WorkerPutEvents(k)
    \/ WorkerMonitor(k)

NextT == Segmenter \/ Manager \/ \E k \in Workers : WorkerT(k)

\* every thread and process keeps being scheduled
Fairness ==
    /\ WF_vars(Segmenter)
    /\ WF_vars(Manager)
    /\ \A k \in Workers : WF_vars(WorkerT(k))

TerminationSpec == Init /\ [][NextT]_vars /\ Fairness


(* Neither the events of a frame nor an exception raised for it         *)
(* influence the coordinator. The order in which the coordinator takes  *)
(* the slots is examined on a run of three chunks whose frames all      *)
(* are processed without exception, invalid mask or event.              *)

\* process_label returns for a frame without masks
CleanOutcomes == { [raised |-> FALSE, ninv |-> 0] }

WorkerProcessClean(k) == WorkerProcessIn(k, CleanOutcomes)

WorkerS(k) ==
    \/ WorkerStart(k)
    \/ WorkerGet(k)
    \/ WorkerTimeout(k)
    \/ WorkerProcessClean(k)
    \/ WorkerCountNone(k)
    \/ WorkerPutEvents(k)
    \/ WorkerMonitor(k)

ScanInit ==
    /\ PipelineInit(ScanDataLength)
    /\ CachesInit(ScanDataLength, ChunkSize, 0, 0)
    /\ RestIdle

NextS == Segmenter \/ Manager \/ \E k \in Workers : WorkerS(k)

ScanSpec == ScanInit /\ [][NextS]_vars


(* The size of the deposited labels is examined on a run in which the   *)
(* segmenter may deposit labels of a bad size.                          *)

NextLabels ==
    \/ Segmenter
    \/ \E s \in Slots : SegmenterDepositOversized(s)
    \/ Manager
    \/ \E k \in Workers : WorkerS(k)

LabelSpec == Init /\ [][NextLabels]_vars


(* ------------------------------------------------------------------ *)
(* The image caches: HDF5ImageCache and ImageCorrCache                *)
(* An image is modelled by one pixel; a chunk is a sequence of images. *)
(* ------------------------------------------------------------------ *)

\* len(h5ds) of the image cache that is examined on its own
H5Length == 5

\* largest chunk_size of the image cache that is examined on its own
MaxChunkSize == 3

\* largest cache_size of the image cache that is examined on its own
MaxCacheSize == 2

\* len(h5ds) of the image and background data under an ImageCorrCache
CorrLength == 3

\* largest chunk_size of the caches under an ImageCorrCache
MaxCorrChunkSize == 2

\* the cache sizes << image.cache_size, image_bg.cache_size >> of the
\* caches under an ImageCorrCache: different sizes either way, and a
\* size of zero on either side
CorrCacheSizes == { <<2, 1>>, <<1, 2>>, <<0, 1>>, <<1, 0>> }

\* image i of the raw data (a uint8 pixel)
RawPixel(i) == (3 * i + 1) % 256

\* image i of the background data
BgPixel(i) == (250 - 2 * i) % 256

\* the raw image data set of n images
RawData(n) == [j \in 1 .. n |-> RawPixel(j - 1)]

\* the background data set of n images
BgData(n) == [j \in 1 .. n |-> BgPixel(j - 1)]

\* a bound of a slice applied to n elements (slice.indices)
SliceBound(v, n) ==
    IF v < 0
    THEN (IF v + n < 0 THEN 0 ELSE v + n)
    ELSE (IF v > n THEN n ELSE v)

\* h5ds[slice(start, stop)]
H5Slice(ds, start, stop) ==
    LET a == SliceBound(start, Len(ds))
        b == SliceBound(stop, Len(ds))
    IN  IF a < b THEN SubSeq(ds, a + 1, b) ELSE << >>

\* chunk_index in self.cache
InCache(cache, k) == \E j \in 1 .. Len(cache) : cache[j].key = k

\* self.cache[chunk_index] of a chunk that is in the cache
CacheData(cache, k) ==
    cache[CHOOSE j \in 1 .. Len(cache) : cache[j].key = k].data

\* variant: a hit moves the entry to the end of the cache
HitRefreshes(cache, k) ==
    LET j == CHOOSE i \in 1 .. Len(cache) : cache[i].key = k
    IN  SubSeq(cache, 1, j - 1) \o SubSeq(cache, j + 1, Len(cache))
          \o << cache[j] >>

\* a hit leaves the cache as it is
Hit(cache, k) == cache

\* variant: the cache may grow one entry beyond its size
ExceedsByTwo(n, size) == n > size + 1

\* len(self.cache) > self.cache_size
Exceeds(n, size) == n > size

\* variant: the entry inserted last is removed
PopLast(cache) == SubSeq(cache, 1, Len(cache) - 1)

\* self.cache.popitem(last=False): the entry inserted first is removed
PopItem(cache) == Tail(cache)

\* the cache after a chunk was stored in it
Store(cache, k, data, size) ==
    LET filled == Append(cache, [key |-> k, data |-> data])
    IN  IF Exceeds(Len(filled), size) THEN PopItem(filled) ELSE filled

\* HDF5ImageCache.get_chunk: the cache after the call, whether
\* self.cache[chunk_index] was found for the return, and the chunk
get_chunk(cache, ds, cs, size, k) ==
    LET after == IF InCache(cache, k)
                 THEN Hit(cache, k)
                 ELSE Store(cache, k, H5Slice(ds, cs * k, cs * (k + 1)),
                            size)
    IN  [cache |-> after,
         found |-> InCache(after, k),
         data |-> IF InCache(after, k) THEN CacheData(after, k) ELSE << >>]

\* variant: a negative index is taken as it is
IndexAsIs(index, n) == index

\* if index < 0: index = len(self.h5ds) + index
NormalIndex(index, n) == IF index < 0 THEN n + index ELSE index

\* chunk[sub_index] of a chunk got from get_chunk, or the KeyError of
\* get_chunk; the IndexError is that of the array holding the chunk
Subscript(op, arg, got, k, sub_index) ==
    IF ~got.found
    THEN Result(op, arg, "KeyError", 0, << >>, "cache", k, 0)
    ELSE IF sub_index < Len(got.data)
    THEN Result(op, arg, "value", got.data[sub_index + 1], << >>,
                "none", 0, 0)
    ELSE Result(op, arg, "IndexError", 0, << >>, "array", sub_index,
                Len(got.data))

\* HDF5ImageCache.__getitem__: the cache after the call and the result
getitem(op, cache, ds, cs, size, arg) ==
    LET index == NormalIndex(arg, Len(ds))
        chunk_index == index \div cs
        sub_index == index % cs
        got == get_chunk(cache, ds, cs, size, chunk_index)
    IN  [cache |-> got.cache,
         result |-> Subscript(op, arg, got, chunk_index, sub_index)]

\* variant: the difference of two uint8 pixels as a uint8
UnsignedDiff(a, b) == (a - b) % 256

\* np.array(..., dtype=int) - ...: the difference as a signed integer
SignedDiff(a, b) == a - b

\* variant: the size of the background cache
CorrCapacityOfBg(size, bg_size) == bg_size

\* self.cache_size = image.cache_size
CorrCapacity(size, bg_size) == size

\* ImageCorrCache._get_chunk over the image data raw and the background
\* data bgds: the three caches after the call, whether
\* a chunk was computed and stored, whether the chunk was found for the
\* return, and the chunk
corr_get_chunk(corr, image, bg, raw, bgds, cs, size, bg_size, k) ==
    IF InCache(corr, k)
    THEN [corr |-> Hit(corr, k), image |-> image, bg |-> bg,
          stored |-> FALSE, found |-> TRUE, data |-> CacheData(corr, k)]
    ELSE
      LET a == get_chunk(image, raw, cs, size, k)
          b == get_chunk(bg, bgds, cs, bg_size, k)
          data == [j \in 1 .. Len(a.data) |->
                      SignedDiff(a.data[j], b.data[j])]
          after == Store(corr, k, data, CorrCapacity(size, bg_size))
      IN  IF ~a.found
          THEN [corr |-> corr, image |-> a.cache, bg |-> bg,
                stored |-> FALSE, found |-> FALSE, data |-> << >>]
          ELSE IF ~b.found
          THEN [corr |-> corr, image |-> a.cache, bg |-> b.cache,
                stored |-> FALSE, found |-> FALSE, data |-> << >>]
          ELSE [corr |-> after, image |-> a.cache, bg |-> b.cache,
                stored |-> TRUE, found |-> InCache(after, k),
                data |-> IF InCache(after, k)
                         THEN CacheData(after, k) ELSE << >>]

\* the last n elements of a sequence
LastN(seq, n) ==
    IF Len(seq) <= n THEN seq ELSE SubSeq(seq, Len(seq) - n + 1, Len(seq))

\* the history of loads after a call for chunk k on a cache of size n:
\* a chunk is loaded when it is not in the cache; the newest n loads
\* are kept, and whether there were loads before them
LoadsAfter(loads, cache, k, n) ==
    IF InCache(cache, k)
    THEN loads
    ELSE [recent |-> LastN(Append(loads.recent, k), n),
          earlier |-> loads.earlier \/ Len(loads.recent) >= n]

\* the indices a call on a cache of n images is made with: negative
\* ones, valid ones and the first one behind the data
Indices(n) == (-n) .. n

\* the chunk indices get_chunk and get_chunk_size are called with:
\* the valid ones and the first one behind the data
ChunkArgs(n, cs) == 0 .. cache_num_chunks(n, cs)

\* the caches of a data set, with the history of their loads and the
\* result of the last call
DataCaches ==
    [image |-> image_cache, bg |-> bg_cache, corr |-> corr_cache,
     loads |-> h_loads, corr_loads |-> h_corr_loads, result |-> c_result]

\* a data set: its image data, its background data, the chunk size and
\* the sizes of its caches
DataSet(raw, bgds) ==
    [raw |-> raw, bgds |-> bgds, cs |-> c_chunk_size,
     size |-> c_cache_size, bg_size |-> bg_cache_size]

\* data.image[arg]: the caches c of the data set d after the call
ReadImage(c, d, arg) ==
    LET r == getitem("image", c.image, d.raw, d.cs, d.size, arg)
    IN  [c EXCEPT !.image = r.cache,
                  !.result = r.result,
                  !.loads = LoadsAfter(c.loads, c.image,
                                NormalIndex(arg, Len(d.raw)) \div d.cs,
                                d.size)]

\* data.image_bg[arg]: the caches after the call
ReadBackground(c, d, arg) ==
    LET r == getitem("image_bg", c.bg, d.bgds, d.cs, d.bg_size, arg)
    IN  [c EXCEPT !.bg = r.cache, !.result = r.result]

\* data.image_corr[arg] (ImageCorrCache.__getitem__): the caches after
\* the call
ReadCorrected(c, d, arg) ==
    LET index == NormalIndex(arg, Len(d.raw))
        chunk_index == index \div d.cs
        sub_index == index % d.cs
        got == corr_get_chunk(c.corr, c.image, c.bg, d.raw, d.bgds,
                              d.cs, d.size, d.bg_size, chunk_index)
    IN  [image |-> got.image,
         bg |-> got.bg,
         corr |-> got.corr,
         result |-> Subscript("corr", arg, got, chunk_index, sub_index),
         corr_loads |->
             IF got.stored
             THEN LoadsAfter(c.corr_loads, c.corr, chunk_index, d.size)
             ELSE c.corr_loads,
         loads |->
             IF InCache(c.corr, chunk_index)
             THEN c.loads
             ELSE LoadsAfter(c.loads, c.image, chunk_index, d.size)]

\* the caches become c
CachesBecome(c) ==
    /\ image_cache' = c.image
    /\ bg_cache' = c.bg
    /\ corr_cache' = c.corr
    /\ c_result' = c.result
    /\ h_loads' = c.loads
    /\ h_corr_loads' = c.corr_loads

\* image[index]
ImageGetItem(arg) ==
    /\ CachesBecome(ReadImage(DataCaches,
                              DataSet(RawData(h5_len), BgData(h5_len)),
                              arg))
    /\ UNCHANGED << restVars, pipeVars, h5_len, c_chunk_size, c_cache_size,
                    bg_cache_size, it_next, it_out >>

\* image.get_chunk(chunk_index)
ImageGetChunk(k) ==
    LET got == get_chunk(image_cache, RawData(h5_len), c_chunk_size,
                         c_cache_size, k)
    IN  /\ image_cache' = got.cache
        /\ c_result' =
             IF got.found
             THEN Result("image_chunk", k, "chunk", 0, got.data,
                         "none", 0, 0)
             ELSE Result("image_chunk", k, "KeyError", 0, << >>,
                         "cache", k, 0)
        /\ h_loads' = LoadsAfter(h_loads, image_cache, k, c_cache_size)
        /\ UNCHANGED << restVars, pipeVars, h5_len, c_chunk_size, c_cache_size,
                        bg_cache_size, bg_cache, corr_cache, it_next,
                        it_out, h_corr_loads >>

\* image_bg.get_chunk(chunk_index)
BgGetChunk(k) ==
    LET got == get_chunk(bg_cache, BgData(h5_len), c_chunk_size,
                         bg_cache_size, k)
    IN  /\ bg_cache' = got.cache
        /\ c_result' =
             IF got.found
             THEN Result("bg_chunk", k, "chunk", 0, got.data, "none", 0, 0)
             ELSE Result("bg_chunk", k, "KeyError", 0, << >>, "cache", k, 0)
        /\ UNCHANGED << restVars, pipeVars, h5_len, c_chunk_size, c_cache_size,
                        bg_cache_size, image_cache, corr_cache, it_next,
                        it_out, h_loads, h_corr_loads >>

\* ImageCorrCache.__getitem__: image_corr[index]
CorrGetItem(arg) ==
    /\ CachesBecome(ReadCorrected(DataCaches,
                                  DataSet(RawData(h5_len), BgData(h5_len)),
                                  arg))
    /\ UNCHANGED << restVars, pipeVars, h5_len, c_chunk_size, c_cache_size,
                    bg_cache_size, it_next, it_out >>

\* an image cache of H5Length images, with any chunk size and cache size
CacheInit ==
    /\ PipelineInit(DataLength)
    /\ RestIdle
    /\ \E cs \in 1 .. MaxChunkSize, size \in 0 .. MaxCacheSize :
          CachesInit(H5Length, cs, size, 0)

NextCache ==
    \/ \E arg \in Indices(h5_len) : ImageGetItem(arg)
    \/ \E k \in ChunkArgs(h5_len, c_chunk_size) : ImageGetChunk(k)

CacheSpec == CacheInit /\ [][NextCache]_vars

\* an ImageCorrCache over an image cache and a background cache of
\* CorrLength images each, with any chunk size and cache sizes
CorrInit ==
    /\ PipelineInit(DataLength)
    /\ RestIdle
    /\ \E cs \in 1 .. MaxCorrChunkSize, sizes \in CorrCacheSizes :
          CachesInit(CorrLength, cs, sizes[1], sizes[2])

NextCorr ==
    \/ \E arg \in Indices(h5_len) : ImageGetItem(arg)
    \/ \E k \in ChunkArgs(h5_len, c_chunk_size) : BgGetChunk(k)
    \/ \E arg \in Indices(h5_len) : CorrGetItem(arg)

CorrSpec == CorrInit /\ [][NextCorr]_vars


(* ------------------------------------------------------------------ *)
(* Properties                                                         *)
(* ------------------------------------------------------------------ *)

\* positions of the coordinator at which it works on slot cur_slot
Holding == {"claim", "put", "barrier"}

\* worker k has dequeued a work item and not yet acknowledged it
InProgress(k) == w_item[k] # NoItem

\* number of work items put on the raw queue so far
Dispatched == SumTo(h_dispatched, data_len)

\* a step that takes slot s out of state "e"
Releases(s) == slot_states[s] = "e" /\ slot_states'[s] # "e"

Terminated ==
    /\ m_pc = "done"
    /\ \A k \in Workers : w_pc[k] = "done"

\* C1: a slot is owned by one side at a time: while the coordinator
\* works on a slot (reads its chunk index and labels, releases it) the
\* slot is in state "e" and not the segmenter's to fill; a slot in
\* state "e" keeps its chunk index and labels and leaves "e" only by
\* the coordinator's release of that very slot
C1_SlotOwnership ==
    [][ /\ m_pc' \in Holding =>
            /\ slot_states'[cur_slot'] = "e"
            /\ ~SegmenterMayFill(slot_states'[cur_slot'])
        /\ \A s \in Slots :
            slot_states[s] = "e" =>
                /\ slot_chunks'[s] = slot_chunks[s]
                /\ labels_list'[s] = labels_list[s]
                /\ Releases(s) => (m_pc = "barrier" /\ cur_slot = s)
      ]_vars

\* the coordinator works on a slot filled after an earlier release,
\* while another slot is the segmenter's
C1_Witness ==
    /\ m_pc = "barrier"
    /\ chunks_processed >= 1
    /\ slot_states[cur_slot] = "e"
    /\ \E s \in Slots : s # cur_slot /\ SegmenterMayFill(slot_states[s])

\* C2: a slot is released only when every frame of its chunk has been
\* acknowledged: the monitor sum equals frames_processed + chunk_size,
\* which is every work item dispatched so far, and no work item is
\* queued or in progress
C2_ReleaseAfterBarrier ==
    [][ (\E s \in Slots : Releases(s)) =>
            /\ MonitorSum(worker_monitor) = frames_processed + chunk_size
            /\ MonitorSum(worker_monitor) = Dispatched
            /\ raw_queue = << >>
            /\ \A k \in Workers : ~InProgress(k)
      ]_vars

\* a chunk of two frames was extracted by two workers and released
C2_Witness ==
    /\ chunks_processed = 1
    /\ frames_processed = ChunkSize
    /\ slot_states[cur_slot] # "e"
    /\ \A k \in Workers : worker_monitor[k] = 1

\* C3: when the coordinator is done with a slot it sets the slot's
\* state to "s"
C3_ReleasedToS ==
    [][ \A s \in Slots : Releases(s) => slot_states'[s] = "s" ]_vars

\* C4: with every thread and process scheduled fairly and a segmenter
\* that deposits all chunks, the coordinator extracts num_chunks chunks,
\* sets finalize_extraction, the workers exit and run terminates
C4_Terminates ==
    <>( /\ Terminated
        /\ chunks_processed = num_chunks
        /\ seg_next = num_chunks
        /\ finalize_extraction )

\* the run has terminated although a frame raised, with a short last chunk
C4_Witness ==
    /\ Terminated
    /\ chunks_processed = num_chunks
    /\ frames_processed = data_len
    /\ h_raised # {}

\* C5: a worker has left its loop only with finalize_extraction set,
\* the flag is set only after the barrier of the last chunk, and from
\* then on no work item is queued or in progress
C5_ExitOnlyWhenDrained ==
    /\ \A k \in Workers : w_pc[k] = "done" => finalize_extraction
    /\ finalize_extraction =>
          /\ chunks_processed = num_chunks
          /\ MonitorSum(worker_monitor) = Dispatched
          /\ raw_queue = << >>
          /\ \A k \in Workers : ~InProgress(k)
    /\ (\A k \in Workers : w_pc[k] = "done") => raw_queue = << >>

\* all workers have exited after all frames were dispatched
C5_Witness ==
    /\ \A k \in Workers : w_pc[k] = "done"
    /\ Dispatched = data_len
    /\ m_pc = "join"


\* the run is past the barrier of the last chunk
AllExtracted == chunks_processed = num_chunks

\* C6 as stated: when the pipeline has terminated every frame was
\* dispatched as exactly one work item and its entry of feat_nevents
\* was written exactly once, to a value >= 0
C6_EveryFrameCounted ==
    Terminated =>
        \A i \in Frames :
            /\ h_dispatched[i] = 1
            /\ h_written[i] = 1
            /\ feat_nevents[i] >= 0

\* C6 amended: once all chunks are extracted every frame was dispatched
\* as exactly one work item; the entry of a frame whose processing did
\* not raise was written exactly once, to a value >= 0; the entry of a
\* frame whose processing raised was never written and is still -1
C6_EveryFrameCountedUnlessRaised ==
    /\ \A i \in Frames :
        /\ h_dispatched[i] <= 1
        /\ h_written[i] <= h_dispatched[i]
        /\ h_written[i] = 0 <=> feat_nevents[i] = -1
    /\ AllExtracted =>
        \A i \in Frames :
            /\ h_dispatched[i] = 1
            /\ i \notin h_raised => (h_written[i] = 1 /\ feat_nevents[i] >= 0)
            /\ i \in h_raised => (h_written[i] = 0 /\ feat_nevents[i] = -1)

\* the run has terminated with a frame that raised, a frame with an
\* event and a frame without
C6_Witness ==
    /\ Terminated
    /\ h_raised # {}
    /\ \E i \in Frames : feat_nevents[i] = 0
    /\ \E i \in Frames : feat_nevents[i] >= 1

\* C7: after all workers finished the invalid-mask counter equals the
\* total number of events dropped as invalid; no increment is lost
C7_NoLostIncrement ==
    Terminated => invalid_mask_counter = h_invalid

\* C8: only worker k changes worker_monitor[k], by exactly 1 and as the
\* last step for a work item it dequeued; the monitor sum is the number
\* of work items dispatched that are neither queued nor in progress,
\* and never exceeds the number of work items dispatched
C8_MonitorCountsFinishedItems ==
    [][ /\ \A k \in Workers :
            worker_monitor'[k] # worker_monitor[k] =>
                /\ worker_monitor'[k] = worker_monitor[k] + 1
                /\ InProgress(k) /\ ~InProgress(k)'
                /\ \A j \in Workers \ {k} :
                      /\ worker_monitor'[j] = worker_monitor[j]
                      /\ w_item'[j] = w_item[j]
        /\ MonitorSum(worker_monitor') =
              Dispatched' - Len(raw_queue')
                - Cardinality({k \in Workers : InProgress(k)'})
        /\ MonitorSum(worker_monitor') <= Dispatched'
      ]_vars

\* both workers have acknowledged items, one of them a frame that
\* raised, while a further item is in progress
C8_Witness ==
    /\ \A k \in Workers : worker_monitor[k] >= 1
    /\ h_raised # {}
    /\ \E k \in Workers : InProgress(k)

\* C9: a frame whose processing raised has no message on the event
\* queue; the worker that caught the exception is still in its loop,
\* about to acknowledge the item and dequeue the next; a worker leaves
\* its loop only on the finalize flag, with no item in hand
C9_ExceptionCaughtPerItem ==
    /\ \A msg \in BagToSet(event_queue) : msg[1] \notin h_raised
    /\ \A k \in Workers :
        /\ w_raised[k] => w_pc[k] \in {"result", "monitor"}
        /\ w_pc[k] = "done" => (~InProgress(k) /\ finalize_extraction)
        /\ w_pc[k] = "monitor" /\ w_raised[k] =>
              FrameIndex(w_item[k]) \in h_raised

\* one worker processed every work item: the first frame raised and
\* the last frame was processed and published afterwards
C9_Witness ==
    /\ worker_monitor[0] = data_len
    /\ 0 \in h_raised
    /\ feat_nevents[data_len - 1] >= 0
    /\ \E msg \in BagToSet(event_queue) : msg[1] = data_len - 1

\* C10 as stated: a work item whose processing raised changes neither
\* feat_nevents[index] nor worker_monitor[worker_index]
C10_RaisedUpdatesNeither ==
    [][ \A k \in Workers :
          w_raised[k] =>
            /\ feat_nevents'[FrameIndex(w_item[k])] =
                  feat_nevents[FrameIndex(w_item[k])]
            /\ worker_monitor'[k] = worker_monitor[k]
      ]_vars

\* C10 amended: a work item whose processing raised leaves
\* feat_nevents[index] as it is (at -1), and worker_monitor[worker_index]
\* is incremented by 1 for it as for any other work item
C10_RaisedUpdatesMonitorOnly ==
    [][ \A k \in Workers :
          w_raised[k] =>
            /\ feat_nevents[FrameIndex(w_item[k])] = -1
            /\ feat_nevents'[FrameIndex(w_item[k])] = -1
            /\ w_pc[k] = "monitor" /\ w_pc'[k] # "monitor" =>
                  worker_monitor'[k] = worker_monitor[k] + 1
            /\ w_pc'[k] = w_pc[k] => worker_monitor'[k] = worker_monitor[k]
      ]_vars

\* the only work item acknowledged so far is one that raised
C10_Witness ==
    /\ MonitorSum(worker_monitor) = 1
    /\ Cardinality(h_raised) = 1
    /\ \A k \in Workers : ~InProgress(k)
    /\ \A i \in Frames : feat_nevents[i] = -1

\* (s - start) modulo NumSlots: the number of slots a scan that starts
\* at slot start looks at before it looks at slot s
ScanDistance(start, s) == (s - start + NumSlots) % NumSlots

\* the scan has found its slot, and none of the slots that were in state
\* "e" when it began comes earlier in the cyclic order from slot start
ClaimsFirstFrom(start) ==
    m_pc = "claim" =>
        \A s \in h_scan_e :
            ScanDistance(start, cur_slot) <= ScanDistance(start, s)

\* C11 as stated: a scan goes cyclically over the slots from the slot
\* behind the one claimed last, so that of the slots in state "e" the
\* first one in cyclic order behind the slot claimed last is claimed
C11_ClaimsNextAfterLast ==
    h_last_slot >= 0 => ClaimsFirstFrom((h_last_slot + 1) % NumSlots)

\* C11 amended: every scan goes cyclically over the slots from slot 0,
\* whichever slot was claimed last, so that of the slots in state "e"
\* the one with the lowest index is claimed; the claimed slot is in
\* state "e" and its chunk is the next one processed
C11_ClaimsLowestSlot ==
    /\ ClaimsFirstFrom(0)
    /\ m_pc = "claim" => slot_states[cur_slot] = "e"
    /\ m_pc \in {"put", "barrier"} => chunk = slot_chunks[cur_slot]

\* both slots were in state "e" when a scan began after the chunk of
\* slot 0 was processed, and slot 0 is claimed again
C11_Witness ==
    /\ m_pc = "claim"
    /\ h_last_slot = 0
    /\ h_scan_e = Slots
    /\ cur_slot = 0

\* C12: at the head of every iteration, before the scan is set up, the
\* coordinator goes into the stall if and only if the depth it read from
\* the writer's deque is above 100; the stall lasts depth/100 seconds;
\* a scan begins only after the depth was read and found at most 100,
\* or after the stall; no work item is enqueued during the stall
C12_StallsIffAboveLimit ==
    [][ /\ (m_pc = "top" /\ m_pc' # "top") =>
                /\ m_pc' = "stall" <=> ldq' > 100
                /\ m_pc' = "begin" <=> ldq' <= 100
                /\ m_pc' = "stall" =>
                      100 * stallsec'[1] + stallsec'[2] = ldq'
        /\ (m_pc' = "stall" /\ m_pc # "stall") => m_pc = "top"
        /\ (m_pc' = "begin" /\ m_pc # "begin") => m_pc \in {"top", "stall"}
        /\ (m_pc' = "scan" /\ m_pc # "scan") => m_pc = "begin"
        /\ (m_pc = "stall" \/ m_pc' = "stall") =>
                /\ raw_queue' = raw_queue
                /\ h_dispatched' = h_dispatched
                /\ chunk' = chunk
      ]_vars

\* the coordinator stalls 1.01 s before the scan for the second chunk,
\* which the segmenter has deposited already
C12_Witness ==
    /\ m_pc = "stall"
    /\ ldq = 101
    /\ stallsec = << 1, 1 >>
    /\ chunks_processed = 1
    /\ \E s \in Slots : slot_states[s] = "e"
\* the data sets of the tests of get_chunk_size and iter_chunks:
\* << number of images, chunk_size >>
TestGeometries == { <<20, 8>>, <<209, 10>>, <<210, 10>>, <<211, 10>> }

\* the data sets get_chunk_size and iter_chunks are examined on: those
\* of the tests and every small one, the empty one included
Geometries ==
    TestGeometries \cup ((0 .. H5Length) \X (1 .. MaxChunkSize))

\* image.get_chunk_size(chunk_index)
GetChunkSize(k) ==
    /\ c_result' = cache_get_chunk_size(h5_len, c_chunk_size, k)
    /\ UNCHANGED << restVars, pipeVars, h5_len, c_chunk_size, c_cache_size,
                    bg_cache_size, image_cache, bg_cache, corr_cache,
                    it_next, it_out, h_loads, h_corr_loads >>

\* variant: the generator goes on as long as index <= size
IterContinuesAtEnd(index, size) == index <= size

\* the loop test of the generator: index < size
IterContinues(index, size) == index < size

\* position of a generator that is exhausted
Exhausted == -2

\* image.iter_chunks() is called: a new generator
IterStart ==
    /\ it_next' = 0
    /\ it_out' = << >>
    /\ UNCHANGED << restVars, pipeVars, h5_len, c_chunk_size, c_cache_size,
                    bg_cache_size, image_cache, bg_cache, corr_cache,
                    c_result, h_loads, h_corr_loads >>

\* next() on the generator: the next chunk index is yielded, or the
\* generator is exhausted
IterNext ==
    /\ it_next >= 0
    /\ IF IterContinues(it_next * c_chunk_size, h5_len)
       THEN /\ it_out' = Append(it_out, it_next)
            /\ it_next' = it_next + 1
       ELSE /\ it_next' = Exhausted
            /\ UNCHANGED it_out
    /\ UNCHANGED << restVars, pipeVars, h5_len, c_chunk_size, c_cache_size,
                    bg_cache_size, image_cache, bg_cache, corr_cache,
                    c_result, h_loads, h_corr_loads >>

ChunkInit ==
    /\ PipelineInit(DataLength)
    /\ RestIdle
    /\ \E g \in Geometries : CachesInit(g[1], g[2], 0, 0)

NextChunk ==
    \/ \E k \in 0 .. (cache_num_chunks(h5_len, c_chunk_size) + 1) :
          GetChunkSize(k)
    \/ IterStart
    \/ IterNext

ChunkSpec == ChunkInit /\ [][NextChunk]_vars

(* ------------------------------------------------------------------ *)
(* Properties of the image caches                                     *)
(* ------------------------------------------------------------------ *)

\* the chunk indices in a cache, in the order of their insertion
KeysOf(cache) == [j \in 1 .. Len(cache) |-> cache[j].key]

\* the chunk an index belongs to
ChunkOf(arg) == NormalIndex(arg, h5_len) \div c_chunk_size

\* the indices of the images of the data
ValidIndices == 0 .. (h5_len - 1)

\* the last call was image[i] with a valid index i
ImageCallValid == c_result.op = "image" /\ c_result.arg \in ValidIndices

\* C13: image[i] returns the element source[i] for every valid index i,
\* every chunk size, every cache size and after any sequence of calls
C13_ReadsSourceElement ==
    ImageCallValid =>
        /\ c_result.kind = "value"
        /\ c_result.value = RawData(h5_len)[c_result.arg + 1]

\* the last call asked the image cache for this chunk
ImageCallChunk(result) ==
    IF result.op = "image" THEN ChunkOf(result.arg) ELSE result.arg

\* C14: the chunks in the image cache are the cache_size chunks loaded
\* last, in the order in which they were loaded; a call for a chunk that
\* is in the cache changes neither the cache nor that order
C14_FifoByInsertion ==
    [][ /\ KeysOf(image_cache') = h_loads'.recent
        /\ (/\ c_result'.op \in {"image", "image_chunk"}
            /\ InCache(image_cache, ImageCallChunk(c_result'))) =>
                image_cache' = image_cache
      ]_vars

\* with room for two chunks of two images, chunk 2 and then chunk 1
\* were loaded after another chunk, which was removed
C14_Witness ==
    /\ c_cache_size = 2
    /\ c_chunk_size = 2
    /\ h_loads.recent = << 2, 1 >>
    /\ h_loads.earlier
    /\ KeysOf(image_cache) = << 2, 1 >>
    /\ c_result.kind = "value"

\* a call changes a cache of the given capacity by storing one chunk
\* at its end at the most, and when that takes the cache beyond its
\* capacity, by removing the entry at its front
StoresAndEvictsOldest(cache, after, capacity) ==
    \/ after = cache
    \/ /\ after # << >>
       /\ ~InCache(cache, after[Len(after)].key)
       /\ \/ /\ Len(cache) < capacity
             /\ after = Append(cache, after[Len(after)])
          \/ /\ Len(cache) = capacity
             /\ after = Tail(Append(cache, after[Len(after)]))

\* C15: the image cache, the background cache and the corrected cache
\* never hold more chunks than their cache_size (the corrected cache:
\* that of the image cache); a call that stores a chunk in a full cache
\* removes the chunk stored first and no other; the chunk a call asks
\* for is in a cache with room for a chunk after the call
C15_AtMostCacheSize ==
    [][ /\ Len(image_cache') <= c_cache_size'
        /\ Len(bg_cache') <= bg_cache_size'
        /\ Len(corr_cache') <= c_cache_size'
        /\ StoresAndEvictsOldest(image_cache, image_cache', c_cache_size)
        /\ StoresAndEvictsOldest(bg_cache, bg_cache', bg_cache_size)
        /\ StoresAndEvictsOldest(corr_cache, corr_cache', c_cache_size)
        /\ (c_result'.op = "image" /\ c_cache_size >= 1) =>
              InCache(image_cache', ChunkOf(c_result'.arg))
        /\ (c_result'.op = "bg_chunk" /\ bg_cache_size >= 1) =>
              InCache(bg_cache', c_result'.arg)
      ]_vars

\* the corrected cache and the image cache are full, and each has
\* stored more chunks than it has room for
C15_Witness ==
    /\ c_cache_size = 2
    /\ Len(corr_cache) = 2
    /\ h_corr_loads.earlier
    /\ Len(image_cache) = 2
    /\ h_loads.earlier

\* C16: image[i] with i >= len raises an IndexError that names
\* HDF5ImageCache and the index i, on a cache that has room for a chunk
C16_BoundsErrorNamesCache ==
    (c_result.op = "image" /\ c_result.arg >= h5_len /\ c_cache_size >= 1) =>
        /\ c_result.kind = "IndexError"
        /\ c_result.raiser = "HDF5ImageCache"
        /\ c_result.index = c_result.arg

\* the result of a call as that of the same call made with another
\* argument
WithArg(result, arg) == [result EXCEPT !.arg = arg]

\* C17: for -len <= i < 0, image[i] and image_corr[i] end as image[len + i]
\* and image_corr[len + i] made in the same state of the caches end, with
\* the same element or the same exception, and leave the caches in the
\* same state; the element returned is that of index len + i
C17_NegativeIndex ==
    [][ LET arg == c_result'.arg
            index == h5_len + arg
        IN  /\ (c_result'.op = "image" /\ arg < 0) =>
                LET r == getitem("image", image_cache, RawData(h5_len),
                                 c_chunk_size, c_cache_size, index)
                IN  /\ c_result' = WithArg(r.result, arg)
                    /\ image_cache' = r.cache
                    /\ c_result'.kind = "value" =>
                          c_result'.value = RawPixel(index)
            /\ (c_result'.op = "corr" /\ arg < 0) =>
                LET k == index \div c_chunk_size
                    got == corr_get_chunk(corr_cache, image_cache, bg_cache,
                              RawData(h5_len), BgData(h5_len),
                              c_chunk_size, c_cache_size,
                              bg_cache_size, k)
                IN  /\ c_result' =
                          Subscript("corr", arg, got, k,
                                    index % c_chunk_size)
                    /\ corr_cache' = got.corr
                    /\ c_result'.kind = "value" =>
                          c_result'.value = RawPixel(index) - BgPixel(index)
      ]_vars

\* image_corr[-len] has returned the corrected first image
C17_Witness ==
    /\ c_result.op = "corr"
    /\ c_result.arg = -h5_len
    /\ c_result.kind = "value"
    /\ c_result.value = RawPixel(0) - BgPixel(0)
    /\ c_chunk_size = 2

\* C20: image_corr[i] with a valid index i returns raw[i] - background[i]
\* as a signed integer, after any sequence of calls on the three caches
\* (it returns whenever the two underlying caches have room for a
\* chunk); every chunk in the corrected cache holds these differences;
\* the corrected cache holds the chunks it stored last, in the order in
\* which it stored them, as many as the cache_size of the image cache
C20_CorrectedIsSignedDifference ==
    /\ (c_result.op = "corr" /\ c_result.arg \in ValidIndices) =>
          /\ c_result.kind = "value" =>
                c_result.value =
                    RawPixel(c_result.arg) - BgPixel(c_result.arg)
          /\ (c_cache_size >= 1 /\ bg_cache_size >= 1) =>
                c_result.kind = "value"
    /\ \A j \in 1 .. Len(corr_cache) :
          \A i \in 1 .. Len(corr_cache[j].data) :
              LET index == corr_cache[j].key * c_chunk_size + i - 1
              IN  corr_cache[j].data[i] = RawPixel(index) - BgPixel(index)
    /\ KeysOf(corr_cache) = h_corr_loads.recent

\* the corrected cache has room for two chunks, the background cache
\* for one; chunks 1 and 2 were stored after another chunk and an
\* image returned, with a negative difference
C20_Witness ==
    /\ c_cache_size = 2
    /\ bg_cache_size = 1
    /\ h_corr_loads.earlier
    /\ KeysOf(corr_cache) = << 1, 2 >>
    /\ c_result.op = "corr"
    /\ c_result.kind = "value"
    /\ c_result.value < 0

\* the number of chunks of the data: the least m with m * chunk_size
\* >= len
CeilChunks ==
    CHOOSE m \in 0 .. h5_len :
        /\ m * c_chunk_size >= h5_len
        /\ (m - 1) * c_chunk_size < h5_len

\* C18: get_chunk_size(i) returns chunk_size for every chunk but the
\* last, for the last chunk len mod chunk_size, or chunk_size when
\* chunk_size divides len; for i >= num_chunks it raises an IndexError
\* that states the number of chunks; the sizes of the chunks add up in
\* such a way that chunk i begins at image i * chunk_size and the last
\* chunk ends with the last image
C18_ChunkSizes ==
    c_result.op = "chunk_size" =>
        /\ c_result.arg < CeilChunks - 1 =>
              /\ c_result.kind = "value"
              /\ c_result.value = c_chunk_size
        /\ c_result.arg = CeilChunks - 1 =>
              /\ c_result.kind = "value"
              /\ c_result.value =
                    IF h5_len % c_chunk_size = 0
                    THEN c_chunk_size
                    ELSE h5_len % c_chunk_size
              /\ c_result.arg * c_chunk_size + c_result.value = h5_len
        /\ c_result.arg >= CeilChunks =>
              /\ c_result.kind = "IndexError"
              /\ c_result.raiser = "HDF5ImageCache"
              /\ c_result.size = CeilChunks

\* of 20 images in chunks of 8 the last chunk, chunk 2, has 4 images
C18_Witness ==
    /\ h5_len = 20
    /\ c_chunk_size = 8
    /\ c_result.op = "chunk_size"
    /\ c_result.arg = 2
    /\ c_result.kind = "value"
    /\ c_result.value = 4

\* C19: a generator of iter_chunks yields 0, 1, 2, ... in ascending
\* order and is exhausted after num_chunks - 1, with num_chunks =
\* ceil(len / chunk_size): 21 chunks for 209 and for 210 images in
\* chunks of 10, 22 chunks for 211; every new generator starts at 0
C19_IterChunks ==
    /\ it_out = [j \in 1 .. Len(it_out) |-> j - 1]
    /\ Len(it_out) <= CeilChunks
    /\ it_next >= 0 => it_next = Len(it_out)
    /\ it_next = Exhausted =>
          /\ Len(it_out) = CeilChunks
          /\ (h5_len = 209 /\ c_chunk_size = 10) => Len(it_out) = 21
          /\ (h5_len = 210 /\ c_chunk_size = 10) => Len(it_out) = 21
          /\ (h5_len = 211 /\ c_chunk_size = 10) => Len(it_out) = 22

\* the generator over 211 images in chunks of 10 is exhausted after
\* 22 chunk indices
C19_Witness ==
    /\ h5_len = 211
    /\ c_chunk_size = 10
    /\ it_next = Exhausted
    /\ Len(it_out) = 22
    /\ it_out[22] = 21


(* ------------------------------------------------------------------ *)
(* Properties of the hand-off: label array, barrier, messages, claims *)
(* ------------------------------------------------------------------ *)

\* the work items that are queued or in progress
InFlight ==
    { raw_queue[j] : j \in 1 .. Len(raw_queue) } \cup
    { w_item[k] : k \in { w \in Workers : InProgress(w) } }

\* frame i was dispatched and the coordinator is past its chunk
Extracted(i) ==
    /\ h_dispatched[i] >= 1
    /\ ~(m_pc \in {"put", "barrier"} /\ chunk = i \div ChunkSize)

\* a message for frame i is on the event queue
HasMessage(i) == \E msg \in BagToSet(event_queue) : msg[1] = i

\* the number of chunks the coordinator has claimed
ClaimedChunks ==
    chunks_processed + (IF m_pc \in {"put", "barrier"} THEN 1 ELSE 0)

\* C27: the coordinator writes the label array only when no work item
\* is queued or in progress; all work items in flight belong to the
\* chunk whose labels the array holds, and from the dequeuing of item
\* (chunk c, frame j) to its acknowledgement row j of the label array
\* is the label image of frame j of chunk c
C27_LabelsStableWhileInFlight ==
    /\ m_pc = "claim" => InFlight = {}
    /\ \A item \in InFlight :
          /\ m_pc \in {"put", "barrier"}
          /\ item[1] = chunk
          /\ label_array[item[2]] = LabelOf(item[1], item[2])

\* a worker processes the only frame of the short last chunk while the
\* label array holds that chunk: its row is set, the rest is zero
C27_Witness ==
    /\ \E k \in Workers :
          /\ w_pc[k] = "process"
          /\ w_item[k] = <<1, 0>>
    /\ chunks_processed >= 1
    /\ label_array[0] = LabelOf(1, 0)
    /\ label_array[1] = ZeroLabel

\* C28: with every thread and process scheduled fairly, every chunk the
\* coordinator has claimed is released: the barrier is reached with
\* sum(worker_monitor) = frames_processed + chunk_size (which is
\* frames_processed once the chunk is counted), whether process_label
\* raised for its frames or not
C28_BarrierAlwaysReached ==
    \A n \in 0 .. (cache_num_chunks(DataLength, ChunkSize) - 1) :
        (m_pc \in {"put", "barrier"} /\ chunks_processed = n)
          ~> (/\ chunks_processed = n + 1
              /\ MonitorSum(worker_monitor) = frames_processed
              /\ slot_states[cur_slot] # "e")

\* a chunk was released all of whose frames raised
C28_Witness ==
    /\ chunks_processed = 1
    /\ chunk = 0
    /\ m_pc = "top"
    /\ h_raised = {0, 1}
    /\ MonitorSum(worker_monitor) = ChunkSize

\* C29: for every message (index, events) on the event queue
\* feat_nevents[index] is the number of events of the message, written
\* once and before the message was put; and once the coordinator is past
\* a chunk, every frame of it that did not raise has its message on the
\* queue
C29_CountBeforeMessage ==
    /\ \A msg \in BagToSet(event_queue) :
          /\ feat_nevents[msg[1]] = msg[2]
          /\ h_written[msg[1]] = 1
          /\ CopiesIn(msg, event_queue) = 1
    /\ \A k \in Workers :
          w_pc[k] = "put" =>
              /\ feat_nevents[FrameIndex(w_item[k])] = w_nevents[k]
              /\ ~HasMessage(FrameIndex(w_item[k]))
    /\ \A i \in Frames :
          (Extracted(i) /\ i \notin h_raised) => HasMessage(i)

\* a chunk was released with a message of one event and a frame that
\* raised and has no message
C29_Witness ==
    /\ chunks_processed = 1
    /\ m_pc = "top"
    /\ chunk = 0
    /\ <<0, 1>> \in BagToSet(event_queue)
    /\ feat_nevents[0] = 1
    /\ 1 \in h_raised
    /\ ~HasMessage(1)

\* C30: a deposit is claimed at most once: the chunks the coordinator
\* has claimed never outnumber the deposits made, no frame is dispatched
\* twice, and a slot the coordinator released is not worked on again
\* before the segmenter has set it to "e"
C30_ClaimedAtMostOnce ==
    /\ ClaimedChunks <= seg_next
    /\ chunks_processed <= seg_next
    /\ \A i \in Frames : h_dispatched[i] <= 1
    /\ m_pc \in Holding => slot_states[cur_slot] = "e"

\* the coordinator has passed over a slot it released and the segmenter
\* has not filled again
C30_Witness ==
    /\ m_pc = "scan"
    /\ chunks_processed = seg_next
    /\ chunks_processed >= 1
    /\ slot_states[0] = ReleasedState
    /\ cur_slot = 1
    /\ unavailable_slots = 1


(* ------------------------------------------------------------------ *)
(* The background series: BackgroundSparseMed.process_approach        *)
(* Times are whole ticks of a clock; an image of the series is        *)
(* represented by its value of the cleansing signal x. Arrays are      *)
(* functions over 0 .. N-1.                                            *)
(* ------------------------------------------------------------------ *)

\* largest number of frames of the input (event_count)
MaxFrames == 6

\* largest split_time, in ticks
MaxSplitTime == 3

\* largest value of the cleansing signal x
MaxSignal == 2

\* largest thresh_cleansing
MaxThresh == 2

\* the values of frac_cleansing, as << numerator, denominator >>: one
\* half, four fifths (near the default of 0.8), and 1, which disables
\* the cleansing
Fractions == { <<1, 2>>, <<4, 5>>, <<1, 1>> }

Abs(v) == IF v < 0 THEN -v ELSE v

\* the number of elements of an array
Size(a) == Cardinality(DOMAIN a)

\* the array a as a sequence
AsSeq(a) == [j \in 1 .. Size(a) |-> a[j - 1]]

\* the sequence s as an array
AsArray(s) == [i \in 0 .. (Len(s) - 1) |-> s[i + 1]]

RECURSIVE Insert(_, _)
\* the ascending sequence s with v inserted
Insert(v, s) ==
    IF s = << >> THEN << v >>
    ELSE IF v <= Head(s) THEN << v >> \o s
    ELSE << Head(s) >> \o Insert(v, Tail(s))

RECURSIVE Sort(_)
\* the elements of s in ascending order
Sort(s) == IF s = << >> THEN << >> ELSE Insert(Head(s), Sort(Tail(s)))

RECURSIVE SumSeq(_)
SumSeq(s) == IF s = << >> THEN 0 ELSE Head(s) + SumSeq(Tail(s))

\* self.time of a recording of n frames, one frame per tick, from 0
FrameTimes(n) == [i \in 0 .. (n - 1) |-> i]

\* self.duration = self.time[-1] - self.time[0]
Duration(time, n) == time[n - 1] - time[0]

\* the size of np.arange(0, duration, split_time)
NumSteps(duration, split_time) ==
    (duration + split_time - 1) \div split_time

\* self.step_times = np.arange(0, self.duration, self.split_time)
StepTimes(duration, split_time) ==
    [k \in 0 .. (NumSteps(duration, split_time) - 1) |-> k * split_time]

\* twice np.median(x) of a sequence x
TwiceMedian(x) ==
    LET s == Sort(x)
        m == Len(x)
    IN  IF m % 2 = 1 THEN 2 * s[(m + 1) \div 2]
        ELSE s[m \div 2] + s[m \div 2 + 1]

\* ref = np.abs(x - np.median(x)), times two
TwiceRef(x) == [j \in 1 .. Len(x) |-> Abs(2 * x[j] - TwiceMedian(x))]

\* thresh = np.var(ref) * 150 / thresh_cleansing; used = ref <= thresh,
\* with r the doubled ref: np.var(ref) is
\* (m * sum(r^2) - sum(r)^2) / (4 * m^2)
ThresholdUsed(r, thresh) ==
    LET m == Len(r)
        sq == SumSeq([j \in 1 .. m |-> r[j] * r[j]])
        su == SumSeq(r)
    IN  [j \in 1 .. m |->
            r[j] * 2 * m * m * thresh <= 150 * (m * sq - su * su)]

\* thresh = np.quantile(ref, frac_cleansing); used = ref <= thresh:
\* the quantile lies at position frac * (m - 1) of the sorted values,
\* linearly interpolated between its two neighbours
QuantileUsed(r, frac) ==
    LET m == Len(r)
        s == Sort(r)
        pos == frac[1] * (m - 1)
        k == pos \div frac[2]
        part == pos % frac[2]
        cut == IF part = 0 THEN s[k + 1] * frac[2]
               ELSE s[k + 1] * frac[2] + part * (s[k + 2] - s[k + 1])
    IN  [j \in 1 .. m |-> r[j] * frac[2] <= cut]

\* np.sum(used)
Kept(used) == Cardinality({ j \in DOMAIN used : used[j] })

\* (1 - frac_remove) < self.frac_cleansing
TooFewKept(used, frac) == Kept(used) * frac[2] < frac[1] * Size(used)

\* the cleansing of a series with signal x: which images are used, and
\* whether frac_cleansing was enforced with the quantile cutoff
Cleanse(x, thresh, frac) ==
    LET r == TwiceRef(x)
        first == IF thresh # 0 THEN ThresholdUsed(r, thresh)
                 ELSE QuantileUsed(r, frac)
    IN  IF thresh # 0 /\ TooFewKept(first, frac)
        THEN [used |-> QuantileUsed(r, frac), enforced |-> TRUE]
        ELSE [used |-> first, enforced |-> FALSE]

\* step_times[used]: the time stamps of the surviving images
Surviving(step_times, used) ==
    LET kept == SelectSeq([j \in 1 .. Size(used) |-> j - 1],
                          LAMBDA k : used[k])
    IN  [j \in 1 .. Len(kept) |-> step_times[kept[j]]]

RECURSIVE FirstLeast(_, _, _)
\* np.argmin(d) over the indices lo .. hi: the first index of the
\* least value, found in the lower half or else in the upper half
FirstLeast(d, lo, hi) ==
    IF lo >= hi THEN lo
    ELSE LET mid == (lo + hi) \div 2
             a == FirstLeast(d, lo, mid)
             b == FirstLeast(d, mid + 1, hi)
         IN  IF d[b] < d[a] THEN b ELSE a

\* np.argmin(np.abs(self.time - t1 + self.split_time / 2)) over n
\* frames: the first index of the least value (distances doubled)
ArgMinShifted(time, n, t1, split_time) ==
    FirstLeast([i \in 0 .. (n - 1) |->
                   Abs(2 * time[i] - 2 * t1 + split_time)], 0, n - 1)

RECURSIVE AssignLoop(_, _, _, _, _, _, _)
\* the loop over the surviving images from image ii on: bg_idx and
\* idx1 when it is left
AssignLoop(st, time, n, split_time, ii, idx0, acc) ==
    IF ii >= Len(st)
    THEN [bg_idx |-> acc, idx1 |-> idx0]
    ELSE LET idx1 == ArgMinShifted(time, n, st[ii + 1], split_time)
         IN  AssignLoop(st, time, n, split_time, ii + 1, idx1,
                 [f \in 0 .. (n - 1) |->
                     IF idx0 <= f /\ f < idx1 THEN ii ELSE acc[f]])

\* bg_idx: the index, among the surviving images, of the image
\* assigned to every frame
AssignBackground(st, time, n, split_time) ==
    LET loop == AssignLoop(st, time, n, split_time, 0, 0,
                           [f \in 0 .. (n - 1) |-> 0])
    IN  IF Len(st) = 0 THEN loop.bg_idx
        ELSE [f \in 0 .. (n - 1) |->
                 IF f >= loop.idx1 THEN Len(st) - 1 ELSE loop.bg_idx[f]]

\* the series of the recording in bg_time
BgStepTimes ==
    StepTimes(Duration(bg_time, Size(bg_time)), bg_split_time)

\* the time stamps of the images that survived the cleansing
BgSurviving == Surviving(BgStepTimes, bg_used)

\* the background series was computed (process_second for every step)
\* for a recording of at least two frames
BackgroundInit ==
    \E n \in 2 .. MaxFrames, split \in 1 .. MaxSplitTime,
       thresh \in 0 .. MaxThresh, frac \in Fractions :
        /\ bg_time = FrameTimes(n)
        /\ bg_split_time = split
        /\ bg_thresh_cleansing = thresh
        /\ bg_frac_cleansing = frac
        /\ bg_x \in [0 .. (NumSteps(n - 1, split) - 1) -> 0 .. MaxSignal]
        /\ bg_pc = "series"
        /\ bg_used = << >>
        /\ bg_enforced = FALSE
        /\ bg_idx = << >>

\* frac_cleansing != 1: images of the series are removed
BgCleanse ==
    /\ bg_pc = "series"
    /\ bg_frac_cleansing # << 1, 1 >>
    /\ LET c == Cleanse(AsSeq(bg_x), bg_thresh_cleansing,
                        bg_frac_cleansing)
       IN  /\ bg_used' = AsArray(c.used)
           /\ bg_enforced' = c.enforced
    /\ bg_pc' = "cleansed"
    /\ UNCHANGED << pipeVars, cacheVars, ppVars, moreVars,
                    bg_time, bg_split_time,
                    bg_thresh_cleansing, bg_frac_cleansing, bg_x, bg_idx >>

\* frac_cleansing == 1: the cleansing is disabled
BgKeepAll ==
    /\ bg_pc = "series"
    /\ bg_frac_cleansing = << 1, 1 >>
    /\ bg_used' = [k \in DOMAIN bg_x |-> TRUE]
    /\ bg_pc' = "cleansed"
    /\ UNCHANGED << pipeVars, cacheVars, ppVars, moreVars,
                    bg_time, bg_split_time,
                    bg_thresh_cleansing, bg_frac_cleansing, bg_x,
                    bg_enforced, bg_idx >>

\* every frame is assigned an image of the cleansed series
BgAssign ==
    /\ bg_pc = "cleansed"
    /\ bg_idx' = AssignBackground(BgSurviving, bg_time, Size(bg_time),
                                  bg_split_time)
    /\ bg_pc' = "assigned"
    /\ UNCHANGED << pipeVars, cacheVars, ppVars, moreVars,
                    bg_time, bg_split_time,
                    bg_thresh_cleansing, bg_frac_cleansing, bg_x,
                    bg_used, bg_enforced >>

BgInit ==
    /\ PipelineInit(DataLength)
    /\ CachesInit(DataLength, ChunkSize, 0, 0)
    /\ PrefixIdle
    /\ PpidIdle
    /\ MoreIdle
    /\ BackgroundInit

NextBg == BgCleanse \/ BgKeepAll \/ BgAssign

BgSpec == BgInit /\ [][NextBg]_vars

\* the surviving image closest in time to frame f, the earlier one of
\* two that are equally close
Closest(st, t) ==
    CHOOSE j \in 0 .. (Len(st) - 1) :
        \A k \in 0 .. (Len(st) - 1) :
            \/ Abs(t - st[j + 1]) < Abs(t - st[k + 1])
            \/ (Abs(t - st[j + 1]) = Abs(t - st[k + 1]) /\ j <= k)

\* C21: after the assignment every frame has the surviving image of
\* the series whose time stamp is closest to the frame's (the earlier
\* one of two equally close); the frames after the last surviving image
\* have that last image
C21_AssignsClosestSurviving ==
    bg_pc = "assigned" =>
        \A f \in DOMAIN bg_time :
            bg_idx[f] = Closest(BgSurviving, bg_time[f])

\* C22: for every thresh_cleansing >= 0 and every frac_cleansing in
\* (0, 1) at least the fraction frac_cleansing of the images of the
\* series survives the cleansing
C22_KeepsFraction ==
    (bg_pc \in {"cleansed", "assigned"} /\ bg_frac_cleansing # << 1, 1 >>) =>
        Kept(bg_used) * bg_frac_cleansing[2]
            >= bg_frac_cleansing[1] * Size(bg_used)



(* ------------------------------------------------------------------ *)
(* Pipeline identifiers: get_unique_prefix, kwargs_to_ppid and        *)
(* ppid_to_kwargs of dcnum.meta.ppid (modelled from their              *)
(* specification and their tests) and the identifier of the           *)
(* QueueEventExtractor. A string is a sequence of characters.          *)
(* ------------------------------------------------------------------ *)

\* largest length of a generated key
MaxKeyLen == 2

\* largest number of keys of a generated list
MaxKeys == 3

\* the characters generated keys are made of
Alphabet == { "a", "b" }

\* str.startswith
StartsWith(word, prefix) ==
    /\ Len(prefix) <= Len(word)
    /\ SubSeq(word, 1, Len(prefix)) = prefix

\* the least element of a set of numbers
Least(S) == CHOOSE m \in S : \A k \in S : m <= k

\* variant: a prefix is compared with the keys listed before the key
UniqueAmongEarlier(in_list, i, n) ==
    \A j \in 1 .. (i - 1) :
        ~StartsWith(in_list[j], SubSeq(in_list[i], 1, n))

\* the first n characters of key i are a prefix of no other key
UniqueAmongAll(in_list, i, n) ==
    \A j \in (DOMAIN in_list) \ {i} :
        ~StartsWith(in_list[j], SubSeq(in_list[i], 1, n))

\* get_unique_prefix(in_list): for every key its shortest prefix that
\* is a prefix of no other key, the key itself if there is none
get_unique_prefix(in_list) ==
    [i \in DOMAIN in_list |->
        LET unique == { n \in 1 .. Len(in_list[i]) :
                           UniqueAmongAll(in_list, i, n) }
        IN  IF unique = {} THEN in_list[i]
            ELSE SubSeq(in_list[i], 1, Least(unique))]

\* test_unique_prefix_ordered: in_list and out_list
OrderedCases ==
    { [in_list |->
      << << "c", "a", "m", "e", "r", "a" >>,
         << "c", "a", "m", "p", "u", "s" >> >>,
       out_list |->
      << << "c", "a", "m", "e" >>,
         << "c", "a", "m", "p" >> >>],
      [in_list |->
      << << "c", "o", "l", "e" >>,
         << "c", "o", "l", "e", "m", "a", "n" >> >>,
       out_list |->
      << << "c", "o", "l", "e" >>,
         << "c", "o", "l", "e", "m" >> >>],
      [in_list |->
      << << "c", "o", "l", "e" >>,
         << "c", "o", "l", "e", "m", "a", "n" >>,
         << "c", "o", "l", "e", "m", "i", "n", "e" >> >>,
       out_list |->
      << << "c", "o", "l", "e" >>,
         << "c", "o", "l", "e", "m", "a" >>,
         << "c", "o", "l", "e", "m", "i" >> >>],
      [in_list |->
      << << "c", "o", "l", "e" >>,
         << "c", "o", "l", "e", "m", "a", "n" >>,
         << "c", "u", "n", "d", "i", "s" >> >>,
       out_list |->
      << << "c", "o", "l", "e" >>,
         << "c", "o", "l", "e", "m" >>,
         << "c", "u" >> >>],
      [in_list |->
      << << "a", "n" >>,
         << "a", "n", "d" >>,
         << "a", "n", "d", "e", "r", "s", "o", "n" >>,
         << "a", "n", "d", "e", "r", "s", "r", "u", "m" >>,
         << "a", "n", "t" >> >>,
       out_list |->
      << << "a", "n" >>,
         << "a", "n", "d" >>,
         << "a", "n", "d", "e", "r", "s", "o" >>,
         << "a", "n", "d", "e", "r", "s", "r" >>,
         << "a", "n", "t" >> >>] }

\* test_unique_prefix_unordered: in_list and out_list
UnorderedCases ==
    { [in_list |->
      << << "c", "a", "m", "p", "u", "s" >>,
         << "c", "a", "m", "e", "r", "a" >> >>,
       out_list |->
      << << "c", "a", "m", "p" >>,
         << "c", "a", "m", "e" >> >>],
      [in_list |->
      << << "c", "o", "l", "e", "m", "a", "n" >>,
         << "c", "o", "l", "e" >> >>,
       out_list |->
      << << "c", "o", "l", "e", "m" >>,
         << "c", "o", "l", "e" >> >>],
      [in_list |->
      << << "c", "o", "l", "e", "m", "a", "n" >>,
         << "c", "o", "l", "e" >>,
         << "c", "o", "l", "e", "m", "i", "n", "e" >> >>,
       out_list |->
      << << "c", "o", "l", "e", "m", "a" >>,
         << "c", "o", "l", "e" >>,
         << "c", "o", "l", "e", "m", "i" >> >>],
      [in_list |->
      << << "c", "o", "l", "e" >>,
         << "c", "u", "n", "d", "i", "s" >>,
         << "c", "o", "l", "e", "m", "a", "n" >> >>,
       out_list |->
      << << "c", "o", "l", "e" >>,
         << "c", "u" >>,
         << "c", "o", "l", "e", "m" >> >>],
      [in_list |->
      << << "a", "n" >>,
         << "a", "n", "d", "e", "r", "s", "r", "u", "m" >>,
         << "a", "n", "d" >>,
         << "a", "n", "d", "e", "r", "s", "o", "n" >>,
         << "a", "n", "t" >> >>,
       out_list |->
      << << "a", "n" >>,
         << "a", "n", "d", "e", "r", "s", "r" >>,
         << "a", "n", "d" >>,
         << "a", "n", "d", "e", "r", "s", "o" >>,
         << "a", "n", "t" >> >>] }

PrefixCases == OrderedCases \cup UnorderedCases

\* the keys of at most n characters of the alphabet
GeneratedKeys(n) ==
    UNION { [1 .. len -> Alphabet] : len \in 1 .. n }

\* the lists of at most m distinct generated keys
GeneratedLists(n, m) ==
    UNION { { l \in [1 .. len -> GeneratedKeys(n)] :
                \A i, j \in 1 .. len : i # j => l[i] # l[j] } :
            len \in 1 .. m }

\* the sequence s with its elements i and i + 1 exchanged
Swapped(s, i) ==
    [j \in DOMAIN s |->
        IF j = i THEN s[i + 1] ELSE IF j = i + 1 THEN s[i] ELSE s[j]]

\* how the keys of a list were abbreviated
Abbreviations(in_list, out_list) ==
    { << in_list[i], out_list[i] >> : i \in DOMAIN in_list }

\* a list of keys is given: one of the tests, or a generated one
PrefixInit ==
    /\ pp_in_list \in { c.in_list : c \in PrefixCases }
                         \cup GeneratedLists(MaxKeyLen, MaxKeys)
    /\ pp_out_list = << >>
    /\ pp_seen = {}

\* get_unique_prefix(in_list) is called
Abbreviate ==
    /\ pp_out_list' = get_unique_prefix(pp_in_list)
    /\ pp_seen' = pp_seen \cup
                     Abbreviations(pp_in_list, get_unique_prefix(pp_in_list))
    /\ UNCHANGED << pipeVars, cacheVars, bgVars, moreVars, pp_in_list, pp_cls,
                    pp_kwargs, pp_ppid, pp_present, pp_result, pp_edits,
                    pp_pc >>

\* the caller lists the same keys in another order
Reorder(i) ==
    /\ pp_in_list' = Swapped(pp_in_list, i)
    /\ pp_out_list' = << >>
    /\ UNCHANGED << pipeVars, cacheVars, bgVars, moreVars, pp_seen, pp_cls,
                    pp_kwargs, pp_ppid, pp_present, pp_result, pp_edits,
                    pp_pc >>

PrefixSpecInit ==
    /\ PipelineInit(DataLength)
    /\ CachesInit(DataLength, ChunkSize, 0, 0)
    /\ BackgroundIdle
    /\ PpidIdle
    /\ MoreIdle
    /\ PrefixInit

NextPrefix ==
    \/ Abbreviate
    \/ \E i \in 1 .. (Len(pp_in_list) - 1) : Reorder(i)

PrefixSpec == PrefixSpecInit /\ [][NextPrefix]_vars

\* C23: get_unique_prefix returns, position by position, a prefix of
\* every key; no two keys get the same abbreviation; the abbreviation
\* of a key is the same in whatever order the keys are listed; and the
\* lists of the tests get the abbreviations the tests expect
C23_UniquePrefixes ==
    /\ pp_out_list # << >> =>
          /\ Len(pp_out_list) = Len(pp_in_list)
          /\ \A i \in DOMAIN pp_in_list :
                /\ pp_out_list[i] # << >>
                /\ StartsWith(pp_in_list[i], pp_out_list[i])
                /\ \A j \in DOMAIN pp_in_list :
                      i # j => pp_out_list[i] # pp_out_list[j]
          /\ \A c \in PrefixCases :
                pp_in_list = c.in_list => pp_out_list = c.out_list
    /\ \A a, b \in pp_seen : a[1] = b[1] => a[2] = b[2]

\* the keys of a test were abbreviated, listed in another order and
\* abbreviated again, one of them to the whole key
C23_Witness ==
    /\ pp_in_list = << << "c", "o", "l", "e", "m", "a", "n" >>,
                      << "c", "u", "n", "d", "i", "s" >>,
                      << "c", "o", "l", "e" >> >>
    /\ pp_out_list = << << "c", "o", "l", "e", "m" >>,
                       << "c", "u" >>,
                       << "c", "o", "l", "e" >> >>
    /\ Cardinality(pp_seen) = 3


(* Keyword arguments and their identifier string                       *)

\* a value of a keyword argument: t is its type; b the value of a
\* bool; n the value of an int, or the digits of a float that has d
\* decimals (n / 10^d, without trailing zero decimals); s the
\* characters of a str
Bool(b) == [t |-> "bool", b |-> b, n |-> 0, d |-> 0, s |-> << >>]

Integer(n) == [t |-> "int", b |-> FALSE, n |-> n, d |-> 0, s |-> << >>]

Float(n, d) == [t |-> "float", b |-> FALSE, n |-> n, d |-> d, s |-> << >>]

Str(s) == [t |-> "str", b |-> FALSE, n |-> 0, d |-> 0, s |-> s]

\* the keyword-only arguments of ExampleClass.cook with their defaults
\* (the annotation is the type of the default), in declaration order
ExampleClassCook ==
    << [key |-> << "t", "e", "m", "p", "e", "r", "a", "t", "u", "r", "e" >>,
        default |-> Float(90, 0)],
       [key |-> << "t", "e" >>, default |-> Str(<< "a" >>)],
       [key |-> << "o", "u", "t", "s", "i", "d", "e" >>,
        default |-> Bool(FALSE)],
       [key |-> << "w", "i", "t", "h", "_", "w", "a", "t", "e", "r" >>,
        default |-> Bool(TRUE)],
       [key |-> << "a", "m", "o", "u", "n", "t" >>,
        default |-> Integer(1000)],
       [key |-> << "w", "i", "n", "e", "_", "t", "y", "p", "e" >>,
        default |-> Str(<< "r", "e", "d" >>)],
       [key |-> << "t", "e", "s", "t", "_", "o", "v", "e", "n" >>,
        default |-> Bool(TRUE)] >>

\* the keyword-only arguments of
\* QueueEventExtractor.get_events_from_masks
GetEventsFromMasks ==
    << [key |-> << "b", "r", "i", "g", "h", "t", "n", "e", "s", "s" >>,
        default |-> Bool(TRUE)],
       [key |-> << "h", "a", "r", "a", "l", "i", "c", "k" >>,
        default |-> Bool(TRUE)] >>

\* QueueEventExtractor.get_ppid_code()
Legacy == << "l", "e", "g", "a", "c", "y" >>

\* the classes whose methods are identified
Classes == { "ExampleClass", "QueueEventExtractor" }

\* the keyword-only arguments of the identified method of a class
MethodInfo(cls) ==
    IF cls = "ExampleClass" THEN ExampleClassCook ELSE GetEventsFromMasks

\* the names of the keyword arguments, in declaration order
Keywords(info) == [i \in DOMAIN info |-> info[i].key]

\* the defaults of the keyword arguments
Defaults(info) ==
    [k \in { info[i].key : i \in DOMAIN info } |->
        info[CHOOSE i \in DOMAIN info : info[i].key = k].default]

\* the decimal digit v as a character
Digit(v) == << "0", "1", "2", "3", "4", "5", "6", "7", "8", "9" >>[v + 1]

\* the value of the digit character c
DigitValue(c) == CHOOSE v \in 0 .. 9 : Digit(v) = c

\* chars is a non-empty string of decimal digits
IsDigits(chars) ==
    /\ chars # << >>
    /\ \A i \in DOMAIN chars : \E v \in 0 .. 9 : chars[i] = Digit(v)

RECURSIVE Digits(_)
\* the decimal representation of the natural number n
Digits(n) ==
    IF n < 10 THEN << Digit(n) >>
    ELSE Digits(n \div 10) \o << Digit(n % 10) >>

RECURSIVE Power10(_)
Power10(d) == IF d = 0 THEN 1 ELSE 10 * Power10(d - 1)

RECURSIVE Decimals(_, _)
\* the d decimals n of a float, with leading zeros
Decimals(n, d) ==
    IF d = 0 THEN << >>
    ELSE Decimals(n \div 10, d - 1) \o << Digit(n % 10) >>

RECURSIVE ParseInt(_)
\* int(chars) of a string of digits
ParseInt(chars) ==
    IF chars = << >> THEN 0
    ELSE 10 * ParseInt(SubSeq(chars, 1, Len(chars) - 1))
            + DigitValue(chars[Len(chars)])

RECURSIVE Normal(_, _)
\* the float n / 10^d without trailing zero decimals
Normal(n, d) ==
    IF d > 0 /\ n % 10 = 0 THEN Normal(n \div 10, d - 1) ELSE Float(n, d)

RECURSIVE Split(_, _)
\* str.split(sep)
Split(str, sep) ==
    LET hits == { i \in DOMAIN str : str[i] = sep }
    IN  IF hits = {} THEN << str >>
        ELSE << SubSeq(str, 1, Least(hits) - 1) >> \o
             Split(SubSeq(str, Least(hits) + 1, Len(str)), sep)

RECURSIVE Join(_, _)
\* sep.join(parts)
Join(parts, sep) ==
    IF parts = << >> THEN << >>
    ELSE IF Len(parts) = 1 THEN parts[1]
    ELSE parts[1] \o << sep >> \o Join(Tail(parts), sep)

\* the abbreviations of the keyword arguments of ExampleClass.cook
CookAbbreviations == get_unique_prefix(Keywords(ExampleClassCook))

\* the abbreviations of the keyword arguments of get_events_from_masks
MasksAbbreviations == get_unique_prefix(Keywords(GetEventsFromMasks))

\* get_unique_prefix(kws) for the keyword arguments of a method
MethodAbbreviations(info) ==
    CASE info = ExampleClassCook -> CookAbbreviations
      [] info = GetEventsFromMasks -> MasksAbbreviations
      [] OTHER -> get_unique_prefix(Keywords(info))

\* the value of a keyword argument as written into the identifier:
\* a bool as 1 or 0, a float without decimals that are zero
FormatValue(v) ==
    CASE v.t = "bool" -> IF v.b THEN << "1" >> ELSE << "0" >>
      [] v.t = "int" -> Digits(v.n)
      [] v.t = "float" ->
            IF v.d = 0 THEN Digits(v.n)
            ELSE Digits(v.n \div Power10(v.d)) \o << "." >> \o
                 Decimals(v.n % Power10(v.d), v.d)
      [] OTHER -> v.s

\* variant: the truth value of the text, bool(val)
BoolOfText(chars) == chars # << >>

\* the decoding of a bool: bool(int(val))
BoolOfDigits(chars) == ParseInt(chars) # 0

\* the text of a value converted to the annotated type t: whether it
\* is valid, and the value
ParseValue(t, chars) ==
    CASE t = "bool" ->
            [ok |-> IsDigits(chars),
             value |-> IF IsDigits(chars) THEN Bool(BoolOfDigits(chars))
                       ELSE Bool(FALSE)]
      [] t = "int" ->
            [ok |-> IsDigits(chars),
             value |-> IF IsDigits(chars) THEN Integer(ParseInt(chars))
                       ELSE Integer(0)]
      [] t = "float" ->
            LET parts == Split(chars, ".")
            IN  IF Len(parts) = 1 /\ IsDigits(parts[1])
                THEN [ok |-> TRUE, value |-> Float(ParseInt(parts[1]), 0)]
                ELSE IF /\ Len(parts) = 2
                        /\ IsDigits(parts[1])
                        /\ IsDigits(parts[2])
                THEN [ok |-> TRUE,
                      value |-> Normal(ParseInt(parts[1] \o parts[2]),
                                       Len(parts[2]))]
                ELSE [ok |-> FALSE, value |-> Float(0, 0)]
      [] OTHER -> [ok |-> TRUE, value |-> Str(chars)]

\* kwargs_to_ppid(cls, method, kwargs): abbreviation=value for every
\* keyword argument in declaration order, joined by "^"
kwargs_to_ppid(info, kwargs) ==
    LET kws == Keywords(info)
        abrv == MethodAbbreviations(info)
    IN  Join([i \in DOMAIN info |->
                 abrv[i] \o << "=" >> \o
                 FormatValue(IF kws[i] \in DOMAIN kwargs
                             THEN kwargs[kws[i]] ELSE info[i].default)],
             "^")

\* variant: the segment at a position belongs to the keyword argument
\* declared at that position
SegmentKeyByPosition(kws, abrv, var, position) ==
    IF position <= Len(kws) THEN position ELSE 0

\* the keyword argument (its position in the declaration, 0 for none)
\* that a segment with abbreviation var stands for: the one abbreviated
\* so, else the first one declared that starts with var
SegmentKey(kws, abrv, var, position) ==
    IF \E i \in DOMAIN kws : abrv[i] = var
    THEN CHOOSE i \in DOMAIN kws : abrv[i] = var
    ELSE IF \E i \in DOMAIN kws : StartsWith(kws[i], var)
    THEN Least({ i \in DOMAIN kws : StartsWith(kws[i], var) })
    ELSE 0

\* one segment "var=val" at a position of the identifier: whether it
\* is valid, its keyword argument and its value
Segment(info, item, position) ==
    LET parts == Split(item, "=")
        kws == Keywords(info)
        at == IF Len(parts) = 2 /\ parts[1] # << >>
              THEN SegmentKey(kws, MethodAbbreviations(info), parts[1],
                              position)
              ELSE 0
        parsed == IF at = 0 THEN [ok |-> FALSE, value |-> Integer(0)]
                  ELSE ParseValue(info[at].default.t, parts[2])
    IN  [ok |-> parsed.ok, at |-> at, value |-> parsed.value]

\* ppid_to_kwargs(cls, method, ppid): the keyword arguments of the
\* segments (a later segment overrides an earlier one), the defaults
\* for the others; an error for a segment that cannot be decoded
ppid_to_kwargs(info, ppid) ==
    LET items == Split(ppid, "^")
        segs == [j \in DOMAIN items |-> Segment(info, items[j], j)]
        named(i) == { j \in DOMAIN segs : segs[j].at = i }
    IN  IF \E j \in DOMAIN segs : ~segs[j].ok
        THEN [kind |-> "error", kwargs |-> << >>]
        ELSE [kind |-> "kwargs",
              kwargs |->
                [k \in { info[i].key : i \in DOMAIN info } |->
                    LET i == CHOOSE i \in DOMAIN info : info[i].key = k
                    IN  IF named(i) = {} THEN info[i].default
                        ELSE segs[CHOOSE j \in named(i) :
                                    \A l \in named(i) : l <= j].value]]

\* QueueEventExtractor.get_ppid_from_ppkw(kwargs)
get_ppid_from_ppkw(kwargs) ==
    Join(<< Legacy, kwargs_to_ppid(GetEventsFromMasks, kwargs) >>, ":")

\* variant: a code is accepted that the extractor's code starts with
CodeIsPrefix(code, own) == StartsWith(own, code)

\* the identifier names this extractor
CodeMatches(code, own) == code = own

\* QueueEventExtractor.get_ppkw_from_ppid(extr_ppid): the unpacking of
\* extr_ppid.split(":") raises ValueError unless there are two parts
get_ppkw_from_ppid(extr_ppid) ==
    LET parts == Split(extr_ppid, ":")
    IN  IF Len(parts) # 2
        THEN [kind |-> "ValueError", kwargs |-> << >>]
        ELSE IF ~CodeMatches(parts[1], Legacy)
        THEN [kind |-> "ValueError", kwargs |-> << >>]
        ELSE ppid_to_kwargs(GetEventsFromMasks, parts[2])

\* the keyword overrides of test_kwargs_to_ppid and
\* test_ppid_to_kwargs, with the identifiers test_kwargs_to_ppid
\* expects
OverrideCases ==
    { [kwargs |-> << >>,
       pid |->
        << "t", "e", "m", "=", "9", "0", "^", "t", "e", "=", "a", "^",
           "o", "=", "0", "^", "w", "i", "t", "=", "1", "^", "a", "=",
           "1", "0", "0", "0", "^", "w", "i", "n", "=", "r", "e", "d",
           "^", "t", "e", "s", "=", "1" >>],
      [kwargs |->
        [k \in { << "t", "e", "m", "p", "e", "r", "a", "t", "u", "r", "e" >> }
                     |-> Float(101, 1)],
       pid |->
        << "t", "e", "m", "=", "1", "0", ".", "1", "^", "t", "e", "=",
           "a", "^", "o", "=", "0", "^", "w", "i", "t", "=", "1", "^",
           "a", "=", "1", "0", "0", "0", "^", "w", "i", "n", "=", "r",
           "e", "d", "^", "t", "e", "s", "=", "1" >>],
      [kwargs |->
        [k \in { << "w", "i", "t", "h", "_", "w", "a", "t", "e", "r" >>,
                 << "w", "i", "n", "e", "_", "t", "y", "p", "e" >> } |->
            IF k = << "w", "i", "n", "e", "_", "t", "y", "p", "e" >>
            THEN Str(<< "b", "l", "u", "e" >>) ELSE Bool(FALSE)],
       pid |->
        << "t", "e", "m", "=", "9", "0", "^", "t", "e", "=", "a", "^",
           "o", "=", "0", "^", "w", "i", "t", "=", "0", "^", "a", "=",
           "1", "0", "0", "0", "^", "w", "i", "n", "=", "b", "l", "u",
           "e", "^", "t", "e", "s", "=", "1" >>] }

\* an identifier of test_ppid_to_kwargs: segments removed, with_water
\* abbreviated to "w"
ShortenedPid ==
    << "t", "e", "m", "=", "9", "0", "^", "t", "e", "=", "a", "^",
       "o", "=", "0", "^", "w", "=", "1", "^", "a", "=", "1", "0",
       "0", "0" >>

\* the values a keyword argument is overridden with: the other truth
\* value, a number with more or fewer digits, another word
Alternatives(default) ==
    CASE default.t = "bool" -> { Bool(~default.b) }
      [] default.t = "int" -> { Integer(0), Integer(default.n + 7) }
      [] default.t = "float" -> { Float(101, 1), Float(5, 2), Float(7, 0) }
      [] OTHER -> { Str(<< "b", "l", "u", "e" >>) }

\* all keyword overrides of a method: any subset of its keyword
\* arguments with any of the alternative values
AllOverrides(info) ==
    LET defaults == Defaults(info)
    IN  UNION { { f \in [S -> UNION { Alternatives(defaults[k]) : k \in S }] :
                    \A k \in S : f[k] \in Alternatives(defaults[k]) } :
                S \in SUBSET (DOMAIN defaults) }

\* the keyword overrides with which identifiers are rearranged: those
\* of the tests for ExampleClass.cook, all of them for the extractor
TestOverrides(cls) ==
    IF cls = "ExampleClass" THEN { c.kwargs : c \in OverrideCases }
    ELSE AllOverrides(GetEventsFromMasks)

\* the part of the identifier in front of its parameters and the ":"
CodePart(cls, ppid) ==
    IF cls = "ExampleClass" \/ Len(Split(ppid, ":")) < 2 THEN << >>
    ELSE Split(ppid, ":")[1] \o << ":" >>

\* the parameters of the identifier
ParamPart(cls, ppid) ==
    IF cls = "ExampleClass" \/ Len(Split(ppid, ":")) < 2 THEN ppid
    ELSE Join(Tail(Split(ppid, ":")), ":")

\* the keyword argument that the segment item at a position of an
\* identifier stands for
KeyOf(cls, item, position) ==
    LET kws == Keywords(MethodInfo(cls))
    IN  kws[SegmentKey(kws, MethodAbbreviations(MethodInfo(cls)),
                       Split(item, "=")[1], position)]

\* how often an identifier is rearranged at most
MaxEdits == 3

\* keyword overrides were chosen, overrides[cls] being those to choose
\* from for a class
PpidInit(overrides) ==
    /\ pp_cls \in Classes
    /\ pp_kwargs \in overrides[pp_cls]
    /\ pp_ppid = << >>
    /\ pp_present = {}
    /\ pp_result = NoKwargs
    /\ pp_edits = 0
    /\ pp_pc = "new"

\* kwargs_to_ppid(cls, method, kwargs), and for the extractor
\* get_ppid_from_ppkw(kwargs)
Encode ==
    /\ pp_pc = "new"
    /\ pp_ppid' =
          IF pp_cls = "ExampleClass"
          THEN kwargs_to_ppid(ExampleClassCook, pp_kwargs)
          ELSE get_ppid_from_ppkw(pp_kwargs)
    /\ pp_present' = DOMAIN Defaults(MethodInfo(pp_cls))
    /\ pp_pc' = "encoded"
    /\ UNCHANGED << pipeVars, cacheVars, bgVars, moreVars,
                    pp_in_list, pp_out_list,
                    pp_seen, pp_cls, pp_kwargs, pp_result, pp_edits >>

\* ppid_to_kwargs(cls, method, ppid), and for the extractor
\* get_ppkw_from_ppid(extr_ppid)
Decode ==
    /\ pp_pc = "encoded"
    /\ pp_result' =
          IF pp_cls = "ExampleClass"
          THEN ppid_to_kwargs(ExampleClassCook, pp_ppid)
          ELSE get_ppkw_from_ppid(pp_ppid)
    /\ pp_pc' = "decoded"
    /\ UNCHANGED << pipeVars, cacheVars, bgVars, moreVars,
                    pp_in_list, pp_out_list,
                    pp_seen, pp_cls, pp_kwargs, pp_ppid, pp_present,
                    pp_edits >>

\* the identifier with its parameters replaced
WithParams(params) ==
    /\ pp_edits < MaxEdits
    /\ pp_edits' = pp_edits + 1
    /\ pp_ppid' = CodePart(pp_cls, pp_ppid) \o params
    /\ UNCHANGED << pipeVars, cacheVars, bgVars, moreVars,
                    pp_in_list, pp_out_list,
                    pp_seen, pp_cls, pp_kwargs, pp_result, pp_pc >>

\* two neighbouring segments of the identifier change places
SwapSegments(i) ==
    /\ pp_pc = "encoded"
    /\ WithParams(Join(Swapped(Split(ParamPart(pp_cls, pp_ppid), "^"), i),
                       "^"))
    /\ UNCHANGED pp_present

\* a segment is removed from the identifier, not the last one left
OmitSegment(i) ==
    LET items == Split(ParamPart(pp_cls, pp_ppid), "^")
    IN  /\ pp_pc = "encoded"
        /\ Len(items) >= 2
        /\ WithParams(Join(SubSeq(items, 1, i - 1) \o
                           SubSeq(items, i + 1, Len(items)), "^"))
        /\ pp_present' = pp_present \ { KeyOf(pp_cls, items[i], i) }

\* the abbreviation of a segment is cut to its first n characters:
\* to what no other keyword argument is abbreviated to, what no
\* keyword argument declared before starts with, and what no other
\* keyword argument that has a segment starts with
ShortenKey(i, n) ==
    LET items == Split(ParamPart(pp_cls, pp_ppid), "^")
        kws == Keywords(MethodInfo(pp_cls))
        abrv == MethodAbbreviations(MethodInfo(pp_cls))
        parts == Split(items[i], "=")
        short == SubSeq(parts[1], 1, n)
        at == SegmentKey(kws, abrv, parts[1], i)
    IN  /\ pp_pc = "encoded"
        /\ n < Len(parts[1])
        /\ \A j \in DOMAIN kws :
              j # at =>
                /\ abrv[j] # short
                /\ j < at => ~StartsWith(kws[j], short)
                /\ kws[j] \in pp_present => ~StartsWith(kws[j], short)
        /\ WithParams(Join([j \in DOMAIN items |->
                              IF j = i
                              THEN short \o << "=" >> \o parts[2]
                              ELSE items[j]], "^"))
        /\ UNCHANGED pp_present

\* the codes put in front of an identifier of the extractor: its own,
\* another stage's, a shortened one, none
Codes == { Legacy, << "t", "h", "r", "e", "s", "h" >>,
           << "l", "e", "g", "a", "c" >>, << >> }

\* the leading code of the extractor's identifier is replaced
ReplaceCode(code) ==
    /\ pp_pc = "encoded"
    /\ pp_cls = "QueueEventExtractor"
    /\ Len(Split(pp_ppid, ":")) = 2
    /\ pp_ppid' = code \o << ":" >> \o ParamPart(pp_cls, pp_ppid)
    /\ UNCHANGED << pipeVars, cacheVars, bgVars, moreVars,
                    pp_in_list, pp_out_list,
                    pp_seen, pp_cls, pp_kwargs, pp_present, pp_result,
                    pp_edits, pp_pc >>

\* the identifier of the extractor is passed on without its code, or
\* with a further part
Malform(as_one) ==
    /\ pp_pc = "encoded"
    /\ pp_cls = "QueueEventExtractor"
    /\ Len(Split(pp_ppid, ":")) = 2
    /\ pp_ppid' = IF as_one THEN ParamPart(pp_cls, pp_ppid)
                  ELSE pp_ppid \o << ":" >> \o Legacy
    /\ UNCHANGED << pipeVars, cacheVars, bgVars, moreVars,
                    pp_in_list, pp_out_list,
                    pp_seen, pp_cls, pp_kwargs, pp_present, pp_result,
                    pp_edits, pp_pc >>

\* encoding and decoding of every set of keyword overrides
RoundTripInit ==
    /\ PipelineInit(DataLength)
    /\ CachesInit(DataLength, ChunkSize, 0, 0)
    /\ BackgroundIdle
    /\ PrefixIdle
    /\ MoreIdle
    /\ PpidInit([cls \in Classes |-> AllOverrides(MethodInfo(cls))])

NextRoundTrip == Encode \/ Decode

RoundTripSpec == RoundTripInit /\ [][NextRoundTrip]_vars

\* identifiers that are rearranged between encoding and decoding
PpidSpecInit ==
    /\ PipelineInit(DataLength)
    /\ CachesInit(DataLength, ChunkSize, 0, 0)
    /\ BackgroundIdle
    /\ PrefixIdle
    /\ MoreIdle
    /\ PpidInit([cls \in Classes |-> TestOverrides(cls)])

\* the number of segments of the identifier
NumSegments == Len(Split(ParamPart(pp_cls, pp_ppid), "^"))

\* the length of the abbreviation of segment i of the identifier
AbbreviationLen(i) ==
    Len(Split(Split(ParamPart(pp_cls, pp_ppid), "^")[i], "=")[1])

NextPpid ==
    \/ Encode
    \/ \E i \in 1 .. (NumSegments - 1) : SwapSegments(i)
    \/ \E i \in 1 .. NumSegments : OmitSegment(i)
    \/ \E i \in 1 .. NumSegments :
          \E n \in 1 .. (AbbreviationLen(i) - 1) : ShortenKey(i, n)
    \/ \E code \in Codes : ReplaceCode(code)
    \/ \E as_one \in BOOLEAN : Malform(as_one)
    \/ Decode

PpidSpec == PpidSpecInit /\ [][NextPpid]_vars

\* the keyword arguments a decoding has to return: the defaults,
\* updated with the overrides of the keyword arguments in present
Expected(cls, kwargs, present) ==
    LET defaults == Defaults(MethodInfo(cls))
    IN  [k \in DOMAIN defaults |->
            IF k \in present /\ k \in DOMAIN kwargs
            THEN kwargs[k] ELSE defaults[k]]

\* C24: ppid_to_kwargs(cls, method, kwargs_to_ppid(cls, method, kwargs))
\* is the method's keyword defaults updated with kwargs, for every
\* subset of keyword overrides; a bool is encoded as 1 or 0 and decoded
\* as a bool; the overrides of the tests are encoded as the tests expect
C24_RoundTrip ==
    /\ pp_pc = "decoded" =>
          /\ pp_result.kind = "kwargs"
          /\ pp_result.kwargs =
                Expected(pp_cls, pp_kwargs,
                         DOMAIN Defaults(MethodInfo(pp_cls)))
    /\ (pp_pc \in {"encoded", "decoded"} /\ pp_cls = "ExampleClass") =>
          \A c \in OverrideCases :
              pp_kwargs = c.kwargs => pp_ppid = c.pid

\* the overrides of a test with a bool and a str were encoded and
\* decoded
C24_Witness ==
    /\ pp_pc = "decoded"
    /\ pp_cls = "ExampleClass"
    /\ DOMAIN pp_kwargs =
          { << "w", "i", "t", "h", "_", "w", "a", "t", "e", "r" >>,
            << "w", "i", "n", "e", "_", "t", "y", "p", "e" >> }
    /\ pp_result.kwargs[<< "w", "i", "t", "h", "_", "w", "a", "t", "e", "r" >>]
          = Bool(FALSE)
    /\ pp_result.kwargs[<< "t", "e", "m", "p", "e", "r",
                           "a", "t", "u", "r", "e" >>]
          = Float(90, 0)
    /\ \E c \in OverrideCases : pp_kwargs = c.kwargs /\ pp_ppid = c.pid

\* the identifier names the code of the class (a class without code
\* has the parameters only)
CodeIntact ==
    \/ pp_cls = "ExampleClass"
    \/ /\ Len(Split(pp_ppid, ":")) = 2
       /\ Split(pp_ppid, ":")[1] = Legacy

\* C25: the decoding of the parameters of an identifier does not depend
\* on the order of its segments; a keyword argument without segment
\* takes its default; and a segment with a shorter abbreviation that
\* stands for one keyword argument only among those with a segment
\* ("w" for with_water) is decoded as the segment it was
C25_OrderAndOmission ==
    (pp_pc = "decoded" /\ CodeIntact) =>
        /\ pp_result.kind = "kwargs"
        /\ pp_result.kwargs = Expected(pp_cls, pp_kwargs, pp_present)

\* the identifier of the test with two segments removed and "w" for
\* with_water was decoded
C25_Witness ==
    /\ pp_pc = "decoded"
    /\ pp_cls = "ExampleClass"
    /\ pp_ppid = ShortenedPid
    /\ pp_result.kind = "kwargs"
    /\ Cardinality(pp_present) = 5

\* C26: get_ppkw_from_ppid raises ValueError and returns no keyword
\* arguments when the leading code of the identifier is not "legacy"
\* (or when the identifier is not one code and one parameter part);
\* for the code "legacy" it returns the decoded keyword arguments of
\* get_events_from_masks
C26_ForeignCodeRaises ==
    (pp_pc = "decoded" /\ pp_cls = "QueueEventExtractor") =>
        LET parts == Split(pp_ppid, ":")
        IN  IF Len(parts) = 2 /\ parts[1] = Legacy
            THEN /\ pp_result.kind = "kwargs"
                 /\ pp_result.kwargs =
                       Expected(pp_cls, pp_kwargs, pp_present)
            ELSE /\ pp_result.kind = "ValueError"
                 /\ pp_result.kwargs = << >>

\* an identifier with the code of another stage was refused
C26_Witness ==
    /\ pp_pc = "decoded"
    /\ pp_cls = "QueueEventExtractor"
    /\ Len(Split(pp_ppid, ":")) = 2
    /\ Split(pp_ppid, ":")[1] = << "t", "h", "r", "e", "s", "h" >>
    /\ pp_result.kind = "ValueError"

(* ------------------------------------------------------------------ *)
(* Accesses that leave the image cache alone                          *)
(* ------------------------------------------------------------------ *)

\* C39: an access of the image cache to an index (or a chunk) whose
\* chunk is in the cache reads nothing from the data set and leaves the
\* chunks in the cache, their data and their order as they were
C39_HitChangesNothing ==
    [][ (/\ c_result'.op \in {"image", "image_chunk"}
         /\ InCache(image_cache, ImageCallChunk(c_result'))) =>
            /\ image_cache' = image_cache
            /\ h_loads' = h_loads
      ]_vars

\* test_image_cache: with room for two chunks, chunk 0 and then chunk 2
\* were loaded, and an image of chunk 0 was read again
C39_Witness ==
    /\ c_cache_size = 2
    /\ c_chunk_size = 2
    /\ h_loads.recent = << 0, 2 >>
    /\ ~h_loads.earlier
    /\ KeysOf(image_cache) = << 0, 2 >>
    /\ c_result.op = "image"
    /\ c_result.arg = 1
    /\ c_result.kind = "value"
    /\ c_result.value = RawPixel(1)

\* C40: image[i] with i >= len fails and leaves the cache as it was:
\* no chunk is stored and none is removed
C40_FailedAccessChangesNothing ==
    [][ (c_result'.op = "image" /\ c_result'.arg >= h5_len) =>
            /\ c_result'.kind # "value"
            /\ image_cache' = image_cache
      ]_vars

(* ------------------------------------------------------------------ *)
(* Properties of the label array and of the shutdown report           *)
(* ------------------------------------------------------------------ *)

\* the frames of a chunk
FramesOf(c) == { i \in Frames : i \div ChunkSize = c }

\* C31: while the work items of a claimed slot are put and processed,
\* the leading rows of the label array are the labels deposited in the
\* slot and all other rows are zero, so that every label in the array
\* is one of the chunk being processed; when the deposited labels have
\* more frames than the array has rows, run has raised ValueError and
\* no work item was put for the chunk of that slot
C31_ShortChunkZeroed ==
    /\ m_pc \in {"put", "barrier"} =>
          /\ Len(labels_list[cur_slot]) <= ChunkSize
          /\ \A r \in 0 .. (ChunkSize - 1) :
                /\ label_array[r] =
                      IF r < Len(labels_list[cur_slot])
                      THEN labels_list[cur_slot][r + 1] ELSE ZeroLabel
                /\ label_array[r] # ZeroLabel => label_array[r][1] = chunk
    /\ Len(labels_list[cur_slot]) > ChunkSize =>
          /\ m_pc \in {"init", "top", "stall", "begin", "scan", "claim",
                       "raised"}
          /\ m_pc \in {"claim", "raised"} =>
                /\ \A i \in FramesOf(slot_chunks[cur_slot]) :
                      h_dispatched[i] = 0
                /\ \A j \in 1 .. Len(raw_queue) :
                      raw_queue[j][1] # slot_chunks[cur_slot]
    /\ m_pc = "raised" => Len(labels_list[cur_slot]) > ChunkSize

\* the short last chunk is being processed after a full chunk: its
\* label is in the first row, the other row is zero
C31_Witness ==
    /\ m_pc = "barrier"
    /\ chunk = 1
    /\ chunk_size = 1
    /\ chunks_processed = 1
    /\ label_array[0] = LabelOf(1, 0)
    /\ label_array[1] = ZeroLabel

\* C32: when the coordinator reads invalid_mask_counter for its report
\* no work item is queued or in progress, and from then on the counter
\* keeps the value that was read: no worker adds to it afterwards
C32_ReportReadsFinalCount ==
    /\ m_pc = "report" =>
          /\ raw_queue = << >>
          /\ \A k \in Workers : ~InProgress(k)
    /\ inv_masks # -1 =>
          /\ invalid_mask_counter = inv_masks
          /\ \A k \in Workers : w_pc[k] \notin {"inv_read", "inv_write"}

\* the report was made with invalid masks counted, and every worker
\* has left its loop
C32_Witness ==
    /\ m_pc = "done"
    /\ inv_masks >= 1
    /\ invalid_mask_counter = inv_masks
    /\ \A k \in Workers : w_pc[k] = "done"

(* ------------------------------------------------------------------ *)
(* Extraction of one frame: process_label and get_masks_from_label    *)
(* A raw image is one pixel, as in the caches it is read through; a   *)
(* label image is the sequence of its pixels and a mask a sequence    *)
(* of truth values, one per pixel.                                    *)
(* ------------------------------------------------------------------ *)

\* len(self.data.image): the number of raw images
ExFrames == 2

\* the number of pixels of a label image
LabelPixels == 3

\* the largest label value of a label image
MaxLabel == 2

\* the raw images: one pixel, dark or bright
RawImages == 0 .. 1

\* np.all(a == b) of two images of one pixel
AllEqual(a, b) == a = b

\* variant: the test without "and index"
SkipsWithoutIndex(same, index) == same

\* np.all(...) and index
Skips(same, index) == same /\ index # 0

\* np.max(label)
LabelMax(label) ==
    CHOOSE v \in 0 .. MaxLabel :
        /\ \E p \in DOMAIN label : label[p] = v
        /\ \A p \in DOMAIN label : label[p] <= v

\* label == jj
MaskOf(label, jj) == [p \in DOMAIN label |-> label[p] = jj]

\* np.sum(mask_jj)
MaskSum(mask) == Cardinality({ p \in DOMAIN mask : mask[p] })

\* self.gate.gate_mask(mask_jj, mask_sum=mask_sum): the mask is larger
\* than the size the gate asks for
gate_mask(mask, mask_sum, thresh) == mask_sum > thresh

\* variant: the loop begins with the background value
RangeFromZero(lmax) == 0 .. lmax

\* range(1, lmax+1)
RangeFromOne(lmax) == 1 .. lmax

RECURSIVE MasksFrom(_, _, _, _)
\* the loop of get_masks_from_label from label value jj on
MasksFrom(label, thresh, jj, lmax) ==
    IF jj > lmax THEN << >>
    ELSE LET mask_jj == MaskOf(label, jj)
             mask_sum == MaskSum(mask_jj)
             masks == IF /\ jj \in RangeFromOne(lmax)
                         /\ mask_sum # 0
                         /\ gate_mask(mask_jj, mask_sum, thresh)
                      THEN << mask_jj >> ELSE << >>
         IN  masks \o MasksFrom(label, thresh, jj + 1, lmax)

\* get_masks_from_label(label)
get_masks_from_label(label, thresh) ==
    MasksFrom(label, thresh, 0, LabelMax(label))

\* events[key][sel] for the mask of every event: the events that the
\* boolean array sel selects, in their order
Selected(events, sel) ==
    LET kept == SelectSeq([i \in 1 .. Len(events) |-> i],
                          LAMBDA i : sel[i])
    IN  [j \in 1 .. Len(kept) |-> events[kept[j]]]

\* np.sum(invalid) over the events that passed the box gates
NumInvalid(box, valid) ==
    Cardinality({ i \in DOMAIN box : box[i] /\ ~valid[i] })

\* the last call on a cache ended with an exception
Raises(c) == c.result.kind \in {"KeyError", "IndexError"}

\* data.image[arg] unless the call before it raised
ThenImage(c, d, arg) == IF Raises(c) THEN c ELSE ReadImage(c, d, arg)

\* data.image_bg[arg] unless the call before it raised
ThenBackground(c, d, arg) ==
    IF Raises(c) THEN c ELSE ReadBackground(c, d, arg)

\* data.image_corr[arg] unless the call before it raised
ThenCorrected(c, d, arg) ==
    IF Raises(c) THEN c ELSE ReadCorrected(c, d, arg)

\* what process_label came to: whether it raised, whether the frame
\* was skipped, the masks found, the masks of the events, the number
\* of events to count as invalid and the caches after the call
Outcome(raised, skipped, masks, events, invalid, c) ==
    [raised |-> raised, skipped |-> skipped, masks |-> masks,
     events |-> events, invalid |-> invalid, caches |-> c]

\* process_label after its two reads: first is what the read of
\* image[index - 1] returned and c the caches after both reads; the
\* images are compared and the masks are taken from the label image
Compared(first, c, label, thresh, index) ==
    IF Raises(c)
    THEN Outcome(TRUE, FALSE, << >>, << >>, 0, c)
    ELSE IF Skips(AllEqual(first.value, c.result.value), index)
    THEN Outcome(FALSE, TRUE, << >>, << >>, 0, c)
    ELSE Outcome(FALSE, FALSE, get_masks_from_label(label, thresh),
                 << >>, 0, c)

\* process_label up to the masks: the two raw images are read through
\* the image cache and compared
find_masks(c, d, label, thresh, index) ==
    Compared(ReadImage(c, d, index - 1).result,
             ThenImage(ReadImage(c, d, index - 1), d, index),
             label, thresh, index)

\* get_events_from_masks after its reads of the data, with the caches
\* c after them: the events that pass the box gates (box, all true
\* without box gates) and that moments_based_features marked valid
\* are kept; invalid is the number to add to the counter
Gated(c, masks, box, valid) ==
    IF Raises(c)
    THEN Outcome(TRUE, FALSE, masks, << >>, 0, c)
    ELSE Outcome(FALSE, FALSE, masks,
                 Selected(masks, [i \in DOMAIN masks |->
                                     box[i] /\ valid[i]]),
                 NumInvalid(box, valid), c)

\* get_events_from_masks(masks, data_index) without its addition to
\* the invalid-mask counter: image, image_bg and image_corr of the
\* frame are read
get_events_from_masks(c, d, masks, data_index, box, valid) ==
    Gated(ThenCorrected(ThenBackground(ReadImage(c, d, data_index),
                                       d, data_index),
                        d, data_index),
          masks, box, valid)

\* process_label from the masks f on: events is None when the frame
\* was skipped or has no mask
EventsAfter(f, d, index, box, valid) ==
    IF f.raised \/ f.skipped \/ f.masks = << >>
    THEN f
    ELSE get_events_from_masks(f.caches, d, f.masks, index, box, valid)

\* process_label(label, index)
process_label(c, d, label, thresh, index, box, valid) ==
    EventsAfter(find_masks(c, d, label, thresh, index), d, index, box,
                valid)

\* the verdicts on the masks f found: whether an event passes the box
\* gates and whether moments_based_features marked it valid, which
\* is dropped unread for an event that the box gates remove
Verdicts(f) ==
    { v \in [box : [1 .. Len(f.masks) -> BOOLEAN],
             valid : [1 .. Len(f.masks) -> BOOLEAN]] :
        \A i \in 1 .. Len(f.masks) : ~v.box[i] => v.valid[i] }

\* a frame of a stack of raw images, its label image and a gate, and
\* another extractor that shares the invalid-mask counter
ExtractInit ==
    /\ ex_images \in [1 .. ExFrames -> RawImages]
    /\ ex_label \in [1 .. LabelPixels -> 0 .. MaxLabel]
    /\ ex_thresh \in 0 .. 2
    /\ ex_index \in 0 .. (ExFrames - 1)
    /\ ex_skipped = FALSE
    /\ ex_masks = << >>
    /\ ex_box = << >>
    /\ ex_valid = << >>
    /\ ex_events = << >>
    /\ ex_read = 0
    /\ ex_other_pc = "idle"
    /\ ex_other_read = 0
    /\ ex_count = -1
    /\ ex_pc = "new"

\* what no step of an extractor changes, but for the caches and the
\* invalid-mask counter
ExtractKeeps ==
    UNCHANGED << bgVars, ppVars, winVars, medVars, wrVars,
                 h5_len, c_chunk_size, c_cache_size, bg_cache_size,
                 it_next, it_out,
                 data_len, slot_states, slot_chunks, labels_list,
                 seg_next, m_pc, cur_slot, unavailable_slots, chunk,
                 chunk_size, put_ii, ldq, stallsec, chunks_processed,
                 frames_processed, inv_masks, raw_queue, label_array,
                 worker_monitor, finalize_extraction, event_queue,
                 feat_nevents, w_pc, w_item, w_raised, w_nevents,
                 w_ninvalid, w_read, h_dispatched, h_written, h_raised,
                 h_invalid, h_last_slot, h_scan_e >>

\* the caches stay as they are
CachesKept ==
    UNCHANGED << image_cache, bg_cache, corr_cache, c_result, h_loads,
                 h_corr_loads >>

\* the extractor after process_label came to r
Returned(r, box, valid) ==
    /\ ex_skipped' = r.skipped
    /\ ex_masks' = r.masks
    /\ ex_box' = box
    /\ ex_valid' = valid
    /\ ex_events' = r.events
    /\ CachesBecome(r.caches)
    /\ ex_pc' = IF r.raised THEN "raised"
                ELSE IF r.invalid > 0 THEN "inv_read"
                ELSE "labelled"

\* events = self.process_label(label=mp_array[label_index], index=index)
\* up to the addition to the invalid-mask counter, with the verdicts
\* of the box gates and of moments_based_features on every mask; an
\* exception is caught and logged by run
ProcessLabel ==
    /\ ex_pc = "new"
    /\ \E v \in Verdicts(find_masks(DataCaches,
                                    DataSet(ex_images, BgData(h5_len)),
                                    ex_label, ex_thresh, ex_index)) :
           Returned(process_label(DataCaches,
                                  DataSet(ex_images, BgData(h5_len)),
                                  ex_label, ex_thresh, ex_index, v.box,
                                  v.valid),
                    v.box, v.valid)
    /\ ExtractKeeps
    /\ UNCHANGED << invalid_mask_counter, ex_images, ex_label, ex_thresh,
                    ex_index, ex_read, ex_other_pc, ex_other_read,
                    ex_count >>

\* self.invalid_mask_counter.value += np.sum(invalid): the value is
\* read (the lock of the Value is taken and released)
ExtractInvalidRead ==
    /\ ex_pc = "inv_read"
    /\ ex_read' = invalid_mask_counter
    /\ ex_pc' = "inv_write"
    /\ ExtractKeeps
    /\ CachesKept
    /\ UNCHANGED << invalid_mask_counter, ex_images, ex_label, ex_thresh,
                    ex_index, ex_skipped, ex_masks, ex_box, ex_valid,
                    ex_events, ex_other_pc, ex_other_read, ex_count >>

\* self.invalid_mask_counter.value += np.sum(invalid): the sum is
\* written (the lock is taken again); process_label returns
ExtractInvalidWrite ==
    /\ ex_pc = "inv_write"
    /\ invalid_mask_counter' = ex_read + NumInvalid(ex_box, ex_valid)
    /\ ex_pc' = "labelled"
    /\ ExtractKeeps
    /\ CachesKept
    /\ UNCHANGED << ex_images, ex_label, ex_thresh, ex_index, ex_skipped,
                    ex_masks, ex_box, ex_valid, ex_events, ex_read,
                    ex_other_pc, ex_other_read, ex_count >>

\* another extractor found one invalid event: it reads the counter
OtherInvalidRead ==
    /\ ex_pc # "idle"
    /\ ex_other_pc = "idle"
    /\ ex_other_read' = invalid_mask_counter
    /\ ex_other_pc' = "inv_write"
    /\ ExtractKeeps
    /\ CachesKept
    /\ UNCHANGED << invalid_mask_counter, ex_images, ex_label, ex_thresh,
                    ex_index, ex_skipped, ex_masks, ex_box, ex_valid,
                    ex_events, ex_read, ex_count, ex_pc >>

\* the other extractor writes the counter
OtherInvalidWrite ==
    /\ ex_other_pc = "inv_write"
    /\ invalid_mask_counter' = ex_other_read + 1
    /\ ex_other_pc' = "done"
    /\ ExtractKeeps
    /\ CachesKept
    /\ UNCHANGED << ex_images, ex_label, ex_thresh, ex_index, ex_skipped,
                    ex_masks, ex_box, ex_valid, ex_events, ex_read,
                    ex_other_read, ex_count, ex_pc >>

\* feat_nevents[index] = len(events[key0]), or 0 without events
CountEvents ==
    /\ ex_pc = "labelled"
    /\ ex_count' = Len(ex_events)
    /\ ex_pc' = "counted"
    /\ ExtractKeeps
    /\ CachesKept
    /\ UNCHANGED << invalid_mask_counter, ex_images, ex_label, ex_thresh,
                    ex_index, ex_skipped, ex_masks, ex_box, ex_valid,
                    ex_events, ex_read, ex_other_pc, ex_other_read >>

\* the caches of the data are empty, of no capacity or of the largest
ExtractSpecInit ==
    /\ PipelineInit(DataLength)
    /\ \E cs \in 1 .. ChunkSize, size \in {0, MaxCacheSize} :
          CachesInit(ExFrames, cs, size, size)
    /\ BackgroundIdle
    /\ PrefixIdle
    /\ PpidIdle
    /\ WindowIdle
    /\ MedianIdle
    /\ WriteIdle
    /\ ExtractInit

NextExtract ==
    \/ ProcessLabel
    \/ ExtractInvalidRead
    \/ ExtractInvalidWrite
    \/ CountEvents
    \/ OtherInvalidRead
    \/ OtherInvalidWrite

ExtractSpec == ExtractSpecInit /\ [][NextExtract]_vars

\* C33: process_label skips a frame exactly when its index is above 0
\* and every pixel of its raw image equals that of the image before it;
\* the first frame is not skipped, whatever the last image of the
\* stack is; the count entry of a skipped frame becomes 0
C33_SkipsRepeatedFrame ==
    ex_pc \notin {"new", "raised"} =>
        /\ ex_skipped <=>
              /\ ex_index > 0
              /\ ex_images[ex_index + 1] = ex_images[ex_index]
        /\ ex_index = 0 => ~ex_skipped
        /\ (ex_pc = "counted" /\ ex_skipped) => ex_count = 0
        /\ ex_pc = "counted" => ex_count >= 0

\* the first frame of a stack whose last image equals the first was
\* processed, and gave an event
C33_Witness ==
    /\ ex_pc = "counted"
    /\ ex_index = 0
    /\ ex_images[ExFrames] = ex_images[1]
    /\ ~ex_skipped
    /\ ex_count = 1

\* the label values of a label image that have a pixel and whose mask
\* the gate lets pass
MaskedLabels ==
    { v \in 1 .. MaxLabel :
        LET n == Cardinality({ p \in DOMAIN ex_label : ex_label[p] = v })
        IN  n >= 1 /\ n > ex_thresh }

\* C34: for a frame that is not skipped get_masks_from_label returns
\* one mask for each label value from 1 on that has a pixel and passes
\* the gate, in ascending order of the label values, and no other; a
\* mask is true where that value is; a label image with a label of two
\* pixels and a label without pixels gives one event when the event
\* passes the box gates and is valid
C34_OneMaskPerLabel ==
    (ex_pc \notin {"new", "raised"} /\ ~ex_skipped) =>
        /\ Len(ex_masks) = Cardinality(MaskedLabels)
        /\ \A i \in DOMAIN ex_masks :
              \E v \in MaskedLabels :
                  /\ \A p \in DOMAIN ex_label :
                        ex_masks[i][p] <=> ex_label[p] = v
                  /\ Cardinality({ u \in MaskedLabels : u < v }) = i - 1
        /\ (/\ ex_pc = "counted"
            /\ ex_thresh < 2
            /\ \A i \in DOMAIN ex_masks : ex_box[i] /\ ex_valid[i]
            /\ \E p \in DOMAIN ex_label :
                  /\ ex_label[p] = 0
                  /\ \A q \in DOMAIN ex_label \ {p} : ex_label[q] = 2)
           => ex_count = 1

\* a label image with label 2 on two pixels and no pixel of label 1
\* gave one mask and one event
C34_Witness ==
    /\ ex_pc = "counted"
    /\ ex_label = << 2, 2, 0 >>
    /\ ex_thresh = 1
    /\ ~ex_skipped
    /\ ex_masks = << << TRUE, TRUE, FALSE >> >>
    /\ ex_count = 1

(* ------------------------------------------------------------------ *)
(* The frame window of one background image                           *)
(* (feat_background/bg_sparse_median.py, __init__ and process_second) *)
(* ------------------------------------------------------------------ *)

\* largest number of frames of the input of a window
WinFrames == 4

\* largest distance of two successive frames, in ticks
MaxGap == 2

\* self.time of frames whose successive distances are gaps: it starts
\* at 0 (self.time -= self.time[0]) and never decreases
TimesOf(gaps) ==
    [i \in 0 .. Len(gaps) |-> SumSeq(SubSeq(gaps, 1, i))]

\* the kernel size is kept as it was passed
KeepKernel(kernel_size, n) == kernel_size

\* kernel_size after the check of __init__ against len(self.input_data)
ClampKernel(kernel_size, n) == IF kernel_size > n THEN n ELSE kernel_size

\* np.argmin(np.abs(second - self.time)) over n frames: the first index
\* of the least value
ArgMinTime(time, n, second) ==
    LET d(i) == Abs(second - time[i])
    IN  CHOOSE i \in 0 .. (n - 1) :
            \A j \in 0 .. (n - 1) : d(i) < d(j) \/ (d(i) = d(j) /\ i <= j)

\* idx_start and idx_stop of process_second before its assertion
Window(time, event_count, kernel_size, second) ==
    LET idx_start == ArgMinTime(time, event_count, second)
        idx_stop == idx_start + kernel_size
    IN  IF idx_stop >= event_count
        THEN [idx_start |-> IF event_count - kernel_size > 0
                            THEN event_count - kernel_size ELSE 0,
              idx_stop |-> event_count]
        ELSE [idx_start |-> idx_start, idx_stop |-> idx_stop]

\* an input of 1 to WinFrames frames and a kernel size of at least one,
\* up to two more than there are frames
WindowInit ==
    \E n \in 1 .. WinFrames :
        \E gaps \in [1 .. (n - 1) -> 0 .. MaxGap] :
            /\ win_time = TimesOf(gaps)
            /\ win_requested \in 1 .. (n + 2)
            /\ win_kernel_size = 0
            /\ win_warned = FALSE
            /\ win_second = 0
            /\ win_start = 0
            /\ win_stop = 0
            /\ win_pc = "new"

\* __init__: the kernel size is limited to the size of the input
WindowConstruct ==
    /\ win_pc = "new"
    /\ win_warned' = (win_requested > Size(win_time))
    /\ win_kernel_size' = ClampKernel(win_requested, Size(win_time))
    /\ win_pc' = "init"
    /\ UNCHANGED << pipeVars, cacheVars, bgVars, ppVars, exVars, medVars,
                    wrVars, win_time, win_requested, win_second,
                    win_start, win_stop >>

\* process_second for one of self.step_times, up to its assertion
WindowProcessSecond ==
    /\ win_pc \in {"init", "window"}
    /\ \E split \in 1 .. MaxSplitTime :
        LET n == Size(win_time)
            st == StepTimes(Duration(win_time, n), split)
        IN  \E k \in DOMAIN st :
                LET w == Window(win_time, n, win_kernel_size, st[k])
                IN  /\ win_second' = st[k]
                    /\ win_start' = w.idx_start
                    /\ win_stop' = w.idx_stop
                    /\ win_pc' =
                        IF w.idx_stop - w.idx_start = win_kernel_size
                        THEN "window" ELSE "AssertionError"
    /\ UNCHANGED << pipeVars, cacheVars, bgVars, ppVars, exVars, medVars,
                    wrVars, win_time, win_requested, win_kernel_size,
                    win_warned >>

WindowSpecInit ==
    /\ PipelineInit(DataLength)
    /\ CachesInit(DataLength, ChunkSize, 0, 0)
    /\ BackgroundIdle
    /\ PrefixIdle
    /\ PpidIdle
    /\ ExtractIdle
    /\ MedianIdle
    /\ WriteIdle
    /\ WindowInit

NextWindow == WindowConstruct \/ WindowProcessSecond

WindowSpec == WindowSpecInit /\ [][NextWindow]_vars

\* C36: for every time stamp of a step and every kernel size of at
\* least one, the window [idx_start, idx_stop) of process_second holds
\* exactly kernel_size frames and lies within [0, event_count); the
\* assertion of process_second never fails; a kernel size larger than
\* the input is limited to the size of the input, with a warning
C36_WindowHoldsKernelSize ==
    /\ win_pc # "AssertionError"
    /\ win_pc \in {"init", "window"} =>
        /\ win_warned = (win_requested > Size(win_time))
        /\ win_kernel_size =
            (IF win_warned THEN Size(win_time) ELSE win_requested)
    /\ win_pc = "window" =>
        /\ win_stop - win_start = win_kernel_size
        /\ 0 <= win_start
        /\ win_stop <= Size(win_time)

\* a window that was moved back from the end of the input, for a
\* kernel size that was limited
C36_Witness ==
    /\ win_pc = "window"
    /\ win_warned
    /\ win_second > 0
    /\ win_stop = Size(win_time)
    /\ win_start = 0
    /\ win_stop - win_start = win_kernel_size

(* ------------------------------------------------------------------ *)
(* Writing the background images to events/image_bg                   *)
(* (feat_background/bg_sparse_median.py, end of process_approach)     *)
(* ------------------------------------------------------------------ *)

\* step: the number of rows of one batch
WriteStep == 1000

\* largest event_count of a write
MaxRows == 2002

\* the event counts up to this one are all examined
SmallRows == 12

\* the event counts this close to a multiple of the step are examined
NearStep == 2

\* the values of event_count: the small ones, and those around one
\* and two full batches; __init__ fails for an input without frames
\* (self.time[-1]), so that there is at least one frame
WriteCounts ==
    { n \in 1 .. MaxRows :
        \/ n <= SmallRows
        \/ n % WriteStep <= NearStep
        \/ WriteStep - (n % WriteStep) <= NearStep }

\* the values of split_time, in ticks of one frame
WriteSplits(n) == IF n <= SmallRows THEN {2, 300, 700} ELSE {300, 700}

\* bg_images of a write: image k is told apart by its index
WriteBgImages(k) == k

\* stop = min(pos + step, self.event_count)
BatchStop(pos, step, event_count) ==
    IF pos + step < event_count THEN pos + step ELSE event_count

\* before the loop, for a recording of one frame per tick whose
\* series was not cleansed (frac_cleansing = 1): bg_images holds one
\* image per step time, bg_idx was assigned, pos = 0 and no row of
\* the output was written
WriteInit ==
    /\ wr_event_count \in WriteCounts
    /\ wr_split_time \in WriteSplits(wr_event_count)
    /\ wr_num_images = NumSteps(wr_event_count - 1, wr_split_time)
    /\ wr_bg_idx =
        AssignBackground(
            AsSeq(StepTimes(wr_event_count - 1, wr_split_time)),
            FrameTimes(wr_event_count), wr_event_count, wr_split_time)
    /\ wr_pos = 0
    /\ wr_image_bg = [row \in 0 .. (wr_event_count - 1) |-> << >>]
    /\ wr_batches = << >>
    /\ wr_pc = "loop"

\* what no pass of the loop changes
WriteKeeps ==
    UNCHANGED << pipeVars, cacheVars, bgVars, ppVars, exVars, winVars,
                 medVars, wr_event_count, wr_split_time, wr_num_images,
                 wr_bg_idx >>

\* bg_images[bg_idx[cur_slice]] raises IndexError: an index of the
\* slice is not below the number of images
SliceOutOfBounds(pos, stop) ==
    \E row \in pos .. (stop - 1) : wr_bg_idx[row] >= wr_num_images

\* one pass of the loop: the rows of cur_slice receive their images
WriteBatch ==
    /\ wr_pc = "loop"
    /\ wr_pos < wr_event_count
    /\ LET stop == BatchStop(wr_pos, WriteStep, wr_event_count)
       IN  /\ ~SliceOutOfBounds(wr_pos, stop)
           /\ wr_image_bg' =
                [row \in DOMAIN wr_image_bg |->
                    IF wr_pos <= row /\ row < stop
                    THEN Append(wr_image_bg[row],
                                WriteBgImages(wr_bg_idx[row]))
                    ELSE wr_image_bg[row]]
           /\ wr_batches' = Append(wr_batches, << wr_pos, stop >>)
    /\ wr_pos' = wr_pos + WriteStep
    /\ WriteKeeps
    /\ UNCHANGED << wr_pc >>

\* one pass of the loop that raises IndexError before anything is
\* written
WriteRaises ==
    /\ wr_pc = "loop"
    /\ wr_pos < wr_event_count
    /\ SliceOutOfBounds(wr_pos,
                        BatchStop(wr_pos, WriteStep, wr_event_count))
    /\ wr_pc' = "IndexError"
    /\ WriteKeeps
    /\ UNCHANGED << wr_pos, wr_image_bg, wr_batches >>

\* the condition of the loop fails: the loop is left
WriteLeave ==
    /\ wr_pc = "loop"
    /\ ~(wr_pos < wr_event_count)
    /\ wr_pc' = "done"
    /\ WriteKeeps
    /\ UNCHANGED << wr_pos, wr_image_bg, wr_batches >>

WriteSpecInit ==
    /\ PipelineInit(DataLength)
    /\ CachesInit(DataLength, ChunkSize, 0, 0)
    /\ BackgroundIdle
    /\ PrefixIdle
    /\ PpidIdle
    /\ ExtractIdle
    /\ WindowIdle
    /\ MedianIdle
    /\ WriteInit

NextWrite == WriteBatch \/ WriteRaises \/ WriteLeave

\* the loop is one thread of one process: it is never held up for ever
WriteSpec == WriteSpecInit /\ [][NextWrite]_vars /\ WF_vars(NextWrite)

\* the rows below the end of the last batch
RowsWritten == IF wr_batches = << >> THEN 0
               ELSE wr_batches[Len(wr_batches)][2]

\* the batches so far are contiguous from row 0, ascending, of 1 to
\* WriteStep rows within the output, and every row below their end was
\* written once, with the image of its bg_idx, and no other row at all
BatchesInOrder ==
    /\ \A b \in DOMAIN wr_batches :
        /\ wr_batches[b][1] = (IF b = 1 THEN 0 ELSE wr_batches[b - 1][2])
        /\ wr_batches[b][1] < wr_batches[b][2]
        /\ wr_batches[b][2] - wr_batches[b][1] <= WriteStep
        /\ wr_batches[b][2] <= wr_event_count
    /\ \A row \in DOMAIN wr_image_bg :
        wr_image_bg[row] =
            IF row < RowsWritten
            THEN << WriteBgImages(wr_bg_idx[row]) >>
            ELSE << >>
    /\ wr_pc = "done" => RowsWritten = wr_event_count

\* C37: the loop writes every row of [0, event_count) exactly once, in
\* ascending contiguous batches of at most 1000 rows, every row with
\* the background image of its bg_idx, and it ends for every
\* event_count >= 0
C37_EveryRowOnceInBatches == []BatchesInOrder /\ <>(wr_pc = "done")

(* ------------------------------------------------------------------ *)
(* The median workers of the background computation                   *)
(* (feat_background/bg_sparse_median.py: process_second, __exit__ and *)
(* MedianWorkerSingle.run)                                            *)
(*                                                                    *)
(* The pixels of an image are cut into blocks of ival pixels.  What   *)
(* the arrays hold is told apart by the step it stems from:           *)
(* shared_input is the step whose frames it holds, a block of         *)
(* shared_output the step whose frames its median was taken of; -1    *)
(* stands for the zeros the arrays are created with.                  *)
(* ------------------------------------------------------------------ *)

\* num_cpus: the number of median workers
MedianWorkers == 2

\* the size of self.step_times
MedianSteps == 2

\* largest number of blocks of an image
MaxBlocks == 3

\* ival: the number of pixels of one job
ival == 500

\* the value __exit__ gives the worker counter
ExitValue == 0 - 1000

\* the sizes height * width of an image: whole blocks, and one pixel
\* more than whole blocks
ImageSizes ==
    { k * ival : k \in 0 .. MaxBlocks }
        \cup { k * ival + 1 : k \in 0 .. (MaxBlocks - 1) }

\* the number of passes of the job loop of process_second
NumJobs(smax) == (smax + ival - 1) \div ival

\* the block that a job slice << start, stop >> covers
BlockOf(job) == job[1] \div ival

\* the caller goes on whatever the counter is
NoWait(counter, num_jobs) == TRUE

\* the condition that ends the caller's wait
WaitOver(counter, num_jobs) == counter = num_jobs

\* the worker also stops at a counter of zero
StopsAtZero(counter) == counter <= 0

\* the condition on which a worker leaves its loop
WorkerStops(counter) == counter < 0

\* __init__: zeroed arrays, a counter of 0, an empty queue and started
\* workers; process_approach is about to be called
MedianInit ==
    /\ med_smax \in ImageSizes
    /\ med_pc = "reset"
    /\ med_ii = 0
    /\ med_start = 0
    /\ med_num_jobs = 0
    /\ worker_counter = 0
    /\ med_queue = << >>
    /\ shared_input = -1
    /\ shared_output = [b \in 0 .. (NumJobs(med_smax) - 1) |-> -1]
    /\ bg_images = [s \in 0 .. (MedianSteps - 1) |->
                        [b \in 0 .. (NumJobs(med_smax) - 1) |-> -1]]
    /\ mw_pc = [w \in 1 .. MedianWorkers |-> "check"]
    /\ mw_job = [w \in 1 .. MedianWorkers |-> << >>]
    /\ mw_part = [w \in 1 .. MedianWorkers |-> -1]
    /\ mh_written = [s \in 0 .. (MedianSteps - 1) |->
                        [b \in 0 .. (NumJobs(med_smax) - 1) |-> 0]]

\* what no step of the caller changes
CallerKeeps ==
    UNCHANGED << pipeVars, cacheVars, bgVars, ppVars, exVars, winVars,
                 wrVars, med_smax, mw_pc, mw_job, mw_part, mh_written >>

\* process_second: self.worker_counter.value = 0 (the first one)
MedReset ==
    /\ med_pc = "reset"
    /\ worker_counter' = 0
    /\ med_pc' = "fill"
    /\ CallerKeeps
    /\ UNCHANGED << med_ii, med_start, med_num_jobs, med_queue,
                    shared_input, shared_output, bg_images >>

\* process_second: self.shared_input[:] = the frames of step ii
MedFill ==
    /\ med_pc = "fill"
    /\ shared_input' = med_ii
    /\ med_pc' = "again"
    /\ CallerKeeps
    /\ UNCHANGED << med_ii, med_start, med_num_jobs, med_queue,
                    worker_counter, shared_output, bg_images >>

\* process_second: the second self.worker_counter.value = 0, and
\* num_jobs = 0, start = 0
MedResetAgain ==
    /\ med_pc = "again"
    /\ worker_counter' = 0
    /\ med_num_jobs' = 0
    /\ med_start' = 0
    /\ med_pc' = "jobs"
    /\ CallerKeeps
    /\ UNCHANGED << med_ii, med_queue, shared_input, shared_output,
                    bg_images >>

\* the job loop: start += ival; self.queue.put(args)
MedPut ==
    /\ med_pc = "jobs"
    /\ med_start < med_smax
    /\ med_queue' = Append(med_queue, << med_start, med_start + ival >>)
    /\ med_start' = med_start + ival
    /\ med_pc' = "put"
    /\ CallerKeeps
    /\ UNCHANGED << med_ii, med_num_jobs, worker_counter, shared_input,
                    shared_output, bg_images >>

\* the job loop: num_jobs += 1
MedCountJob ==
    /\ med_pc = "put"
    /\ med_num_jobs' = med_num_jobs + 1
    /\ med_pc' = "jobs"
    /\ CallerKeeps
    /\ UNCHANGED << med_ii, med_start, med_queue, worker_counter,
                    shared_input, shared_output, bg_images >>

\* the job loop is left
MedJobsPut ==
    /\ med_pc = "jobs"
    /\ ~(med_start < med_smax)
    /\ med_pc' = "wait"
    /\ CallerKeeps
    /\ UNCHANGED << med_ii, med_start, med_num_jobs, med_queue,
                    worker_counter, shared_input, shared_output,
                    bg_images >>

\* the poll that finds self.worker_counter.value == num_jobs (a poll
\* that finds another value changes nothing)
MedWait ==
    /\ med_pc = "wait"
    /\ WaitOver(worker_counter, med_num_jobs)
    /\ med_pc' = "copy"
    /\ CallerKeeps
    /\ UNCHANGED << med_ii, med_start, med_num_jobs, med_queue,
                    worker_counter, shared_input, shared_output,
                    bg_images >>

\* self.bg_images[ii] = self.shared_output; process_approach goes on
\* to the next step, or the steps are over
MedCopy ==
    /\ med_pc = "copy"
    /\ bg_images' = [bg_images EXCEPT ![med_ii] = shared_output]
    /\ med_ii' = med_ii + 1
    /\ med_pc' = IF med_ii + 1 < MedianSteps THEN "reset" ELSE "computed"
    /\ CallerKeeps
    /\ UNCHANGED << med_start, med_num_jobs, med_queue, worker_counter,
                    shared_input, shared_output >>

\* __exit__ at the end of the with block:
\* self.worker_counter.value = -1000
MedianExit ==
    /\ med_pc = "computed"
    /\ worker_counter' = ExitValue
    /\ med_pc' = "join"
    /\ CallerKeeps
    /\ UNCHANGED << med_ii, med_start, med_num_jobs, med_queue,
                    shared_input, shared_output, bg_images >>

\* __exit__ for an exception that leaves the with block while the
\* steps are computed (a KeyboardInterrupt, say)
MedianExitRaised ==
    /\ med_pc \in {"reset", "fill", "again", "jobs", "put", "wait",
                   "copy"}
    /\ worker_counter' = ExitValue
    /\ med_pc' = "join"
    /\ CallerKeeps
    /\ UNCHANGED << med_ii, med_start, med_num_jobs, med_queue,
                    shared_input, shared_output, bg_images >>

\* __exit__: [w.join() for w in self.workers] returns
MedianJoin ==
    /\ med_pc = "join"
    /\ \A w \in DOMAIN mw_pc : mw_pc[w] = "done"
    /\ med_pc' = "exited"
    /\ CallerKeeps
    /\ UNCHANGED << med_ii, med_start, med_num_jobs, med_queue,
                    worker_counter, shared_input, shared_output,
                    bg_images >>

\* what no step of a worker changes
WorkerKeeps ==
    UNCHANGED << pipeVars, cacheVars, bgVars, ppVars, exVars, winVars,
                 wrVars, med_smax, med_pc, med_ii, med_start,
                 med_num_jobs, shared_input, bg_images >>

\* run: if self.counter.value < 0: break
MwCheck(w) ==
    /\ mw_pc[w] = "check"
    /\ mw_pc' = [mw_pc EXCEPT ![w] =
                    IF WorkerStops(worker_counter) THEN "done" ELSE "get"]
    /\ WorkerKeeps
    /\ UNCHANGED << worker_counter, med_queue, shared_output, mw_job,
                    mw_part, mh_written >>

\* run: self.queue.get(timeout=.1) returns a job
MwGet(w) ==
    /\ mw_pc[w] = "get"
    /\ med_queue # << >>
    /\ mw_job' = [mw_job EXCEPT ![w] = Head(med_queue)]
    /\ med_queue' = Tail(med_queue)
    /\ mw_pc' = [mw_pc EXCEPT ![w] = "partition"]
    /\ WorkerKeeps
    /\ UNCHANGED << worker_counter, shared_output, mw_part, mh_written >>

\* run: self.queue.get(timeout=.1) raises queue.Empty
MwEmpty(w) ==
    /\ mw_pc[w] = "get"
    /\ mw_pc' = [mw_pc EXCEPT ![w] = "check"]
    /\ WorkerKeeps
    /\ UNCHANGED << worker_counter, med_queue, shared_output, mw_job,
                    mw_part, mh_written >>

\* run: part = np.partition(shared_input[:, job_slice], ...)
MwPartition(w) ==
    /\ mw_pc[w] = "partition"
    /\ mw_part' = [mw_part EXCEPT ![w] = shared_input]
    /\ mw_pc' = [mw_pc EXCEPT ![w] = "store"]
    /\ WorkerKeeps
    /\ UNCHANGED << worker_counter, med_queue, shared_output, mw_job,
                    mh_written >>

\* run: shared_output[job_slice] = part[kth]
MwStore(w) ==
    /\ mw_pc[w] = "store"
    /\ LET b == BlockOf(mw_job[w])
       IN  /\ shared_output' = [shared_output EXCEPT ![b] = mw_part[w]]
           /\ mh_written' =
                [mh_written EXCEPT ![mw_part[w]][b] = @ + 1]
    /\ mw_pc' = [mw_pc EXCEPT ![w] = "count"]
    /\ WorkerKeeps
    /\ UNCHANGED << worker_counter, med_queue, mw_job, mw_part >>

\* run: with self.counter.get_lock(): self.counter.value += 1; args
\* and part are not read again before they are assigned anew
MwCount(w) ==
    /\ mw_pc[w] = "count"
    /\ worker_counter' = worker_counter + 1
    /\ mw_job' = [mw_job EXCEPT ![w] = << >>]
    /\ mw_part' = [mw_part EXCEPT ![w] = -1]
    /\ mw_pc' = [mw_pc EXCEPT ![w] = "check"]
    /\ WorkerKeeps
    /\ UNCHANGED << med_queue, shared_output, mh_written >>

\* one step of median worker w
MedianWorker(w) ==
    \/ MwCheck(w)
    \/ MwGet(w)
    \/ MwEmpty(w)
    \/ MwPartition(w)
    \/ MwStore(w)
    \/ MwCount(w)

\* one step of the caller as the code runs without an exception
MedianCaller ==
    \/ MedReset
    \/ MedFill
    \/ MedResetAgain
    \/ MedPut
    \/ MedCountJob
    \/ MedJobsPut
    \/ MedWait
    \/ MedCopy
    \/ MedianExit
    \/ MedianJoin

MedianSpecInit ==
    /\ PipelineInit(DataLength)
    /\ CachesInit(DataLength, ChunkSize, 0, 0)
    /\ BackgroundIdle
    /\ PrefixIdle
    /\ PpidIdle
    /\ ExtractIdle
    /\ WindowIdle
    /\ WriteIdle
    /\ MedianInit

NextMedian ==
    \/ MedianCaller
    \/ MedianExitRaised
    \/ \E w \in 1 .. MedianWorkers : MedianWorker(w)

\* the caller and every worker are processes of their own that the
\* operating system keeps running
MedianSpec ==
    /\ MedianSpecInit
    /\ [][NextMedian]_vars
    /\ WF_vars(MedianCaller)
    /\ \A w \in 1 .. MedianWorkers : WF_vars(MedianWorker(w))

\* the blocks of an image
ImageBlocks == 0 .. (NumJobs(med_smax) - 1)

\* worker w holds a job that it has not counted yet
Holds(w) == mw_pc[w] \in {"partition", "store", "count"}

\* the images copied so far hold, in every block, the median of the
\* frames of their own step, written by one worker; no block of any
\* step was written twice; the counter is at most the number of jobs
\* of a step
MediansInPlace ==
    /\ \A s \in 0 .. (med_ii - 1) : \A b \in ImageBlocks :
        /\ bg_images[s][b] = s
        /\ mh_written[s][b] = 1
    /\ med_pc = "copy" => \A b \in ImageBlocks : shared_output[b] = med_ii
    /\ \A s \in DOMAIN mh_written : \A b \in ImageBlocks :
        mh_written[s][b] <= 1
    /\ \A v, w \in DOMAIN mw_pc :
        (v # w /\ Holds(v) /\ Holds(w)) => mw_job[v] # mw_job[w]
    /\ worker_counter <= NumJobs(med_smax)

\* shared_input is written only while no job is queued or held
InputWrittenAtRest ==
    shared_input' # shared_input =>
        /\ med_queue = << >>
        /\ \A w \in DOMAIN mw_pc : ~Holds(w)

\* C35: the caller copies shared_output into bg_images[ii] only after
\* every one of the ceil(height * width / 500) block jobs of step ii
\* has written its block; every job is run by exactly one worker; the
\* worker counter never exceeds the number of jobs of the step; and
\* shared_input is not overwritten while a job is outstanding
C35_CopyAfterAllBlocks == []MediansInPlace /\ [][InputWrittenAtRest]_vars

\* the last image of a series of images of three blocks was copied
C35_Witness ==
    /\ med_pc = "computed"
    /\ NumJobs(med_smax) = 3
    /\ med_smax % ival = 1
    /\ \A s \in 0 .. (MedianSteps - 1) : \A b \in ImageBlocks :
        bg_images[s][b] = s
    /\ \A s \in 0 .. (MedianSteps - 1) : \A b \in ImageBlocks :
        mh_written[s][b] = 1

\* a worker that has left its loop read a negative counter, which has
\* stayed negative
StoppedBelowZero ==
    \A w \in DOMAIN mw_pc : mw_pc[w] = "done" => worker_counter < 0

\* a worker leaves its loop from its check of the counter only, on a
\* negative value
StopsOnNegativeRead ==
    \A w \in DOMAIN mw_pc :
        (mw_pc[w] # "done" /\ mw_pc'[w] = "done") =>
            mw_pc[w] = "check" /\ worker_counter < 0

\* C38: a median worker leaves its loop only when it reads a negative
\* worker counter, never while the counter is >= 0, and after __exit__
\* has set the counter to a negative value every worker ends, so that
\* the joins return
C38_WorkersStopOnNegative ==
    /\ []StoppedBelowZero
    /\ [][StopsOnNegativeRead]_vars
    /\ (med_pc = "join") ~> (med_pc = "exited")

\* the joins returned after an exit that found a worker with a job,
\* which the worker finished and counted
C38_Witness ==
    /\ med_pc = "exited"
    /\ \A w \in DOMAIN mw_pc : mw_pc[w] = "done"
    /\ worker_counter = ExitValue + 1

====
